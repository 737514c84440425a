-------------------------------- MODULE GuiShell --------------------------------
(***************************************************************************)
(* The shells of freemkv-flash-gui and the sheets of the App: how a        *)
(* question the App wants answered becomes a dialog, and a click on the    *)
(* dialog an answer.  windows.rs, linux.rs, mac.rs and egui_shell.rs each  *)
(* paint the App's View after every input and every poll.                  *)
(*                                                                         *)
(* The native dialogs are modal to the window: meanwhile the user starts   *)
(* nothing, but the shell goes on polling and repainting.                  *)
(***************************************************************************)
EXTENDS Naturals

CONSTANT MaxSheets   \* bound: sheets the App asks for

ASSUME SheetAssumption == MaxSheets \in Nat \ {0}

Shells == {"windows", "linux", "mac", "egui"}

VARIABLES
    shell,      \* which of the shells is built
    running,    \* the App's job runs
    sheet,      \* the App's `pending`: the number of the sheet it wants answered, or 0
    kind,       \* of that sheet: "risk" (a box to tick), "question", or "code"
    ready,      \* its Confirm is enabled: the box is ticked, or the code is entered
    asked,      \* sheets so far
    dialog,     \* the number of the sheet the dialog on the screen shows, or 0
    held,       \* linux, mac: the dialog the shell would take an answer of, or 0
    confirming, \* windows: a confirmation is scheduled or shown
    scheduled   \* windows: TIMER_CONFIRM is set

shellVars == <<shell, running, sheet, kind, ready, asked, dialog, held, confirming, scheduled>>
model == <<running, kind, asked>>
native == <<held, confirming, scheduled>>

ShellInit ==
    /\ shell \in Shells /\ running = FALSE
    /\ sheet = 0 /\ kind = "risk" /\ ready = FALSE /\ asked = 0
    /\ dialog = 0 /\ held = 0
    /\ confirming = FALSE /\ scheduled = FALSE

-----------------------------------------------------------------------------
(* Repaint(w): the shell paints a View that wants sheet w, or none. `screen` *)
(* is the dialog there when it does, `own` the one it would take an answer   *)
(* of.                                                                       *)

\* schedule_confirmation, at the end of windows.rs `render`. A timer that cannot
\* be set cancels the sheet: ShellFailed, of kind Confirmation.
Schedule(w) ==
    \/ /\ sheet' = w /\ confirming' = TRUE /\ scheduled' = TRUE
    \/ sheet' = 0 /\ confirming' = FALSE /\ scheduled' = FALSE

\* `latched` is the latch as the repaint finds it.
RepaintWindows(w, screen, latched) ==
    /\ dialog' = screen /\ UNCHANGED held
    /\ IF w # 0 /\ ~latched THEN Schedule(w)
       ELSE sheet' = w /\ confirming' = latched /\ UNCHANGED scheduled

\* render_confirm. A withdrawn sheet is forgotten before it is closed, so that
\* its response is no answer.
RepaintHeld(w, screen, own) ==
    /\ sheet' = w /\ UNCHANGED <<confirming, scheduled>>
    /\ CASE w # 0 /\ own = 0 -> held' = w /\ dialog' = w
         [] w = 0 /\ own # 0 -> held' = 0 /\ dialog' = 0
         [] OTHER -> held' = own /\ dialog' = screen

\* A frame polls, paints, and only then takes the clicks on what it painted.
RepaintEgui(w, polled) ==
    /\ sheet' = w /\ dialog' = IF polled THEN w ELSE dialog
    /\ UNCHANGED native

Repaint(w, polled) ==
    \/ shell = "windows" /\ RepaintWindows(w, dialog, confirming)
    \/ shell \in {"linux", "mac"} /\ RepaintHeld(w, dialog, held)
    \/ shell = "egui" /\ RepaintEgui(w, polled)

-----------------------------------------------------------------------------
(* The App, as its shell sees it. *)

\* A job needs controls that are enabled and no modal dialog over them.
Start ==
    /\ ~running /\ sheet = 0 /\ dialog = 0 /\ running' = TRUE
    /\ Repaint(0, FALSE)
    /\ UNCHANGED <<shell, kind, ready, asked>>

\* Ticking "bypass the family check" asks for a code, without a job.
AskCode ==
    /\ ~running /\ sheet = 0 /\ dialog = 0 /\ asked < MaxSheets
    /\ asked' = asked + 1 /\ kind' = "code" /\ ready' = FALSE
    /\ Repaint(asked', FALSE)
    /\ UNCHANGED <<shell, running>>

\* A poll finds that the job asks: for the backup, or for the flash. A prepared
\* recovery asks when its job has ended.
AskSheet ==
    /\ running /\ sheet = 0 /\ asked < MaxSheets
    /\ asked' = asked + 1
    /\ running' \in BOOLEAN /\ kind' \in (IF running' THEN {"risk", "question"} ELSE {"risk"})
    /\ ready' = (kind' = "question")
    /\ Repaint(asked', TRUE)
    /\ UNCHANGED shell

\* A poll finds the job done, or lost: a sheet of it is withdrawn.
JobEnds ==
    /\ running /\ running' = FALSE /\ ready' = FALSE
    /\ Repaint(0, TRUE)
    /\ UNCHANGED <<shell, kind, asked>>

\* The sheet wanted after Confirm or CancelConfirm: none, unless it was a Confirm
\* that is not enabled. Either way nothing is acknowledged any more.
AnswerSheet(confirms) == IF confirms /\ ~ready THEN sheet ELSE 0

\* The box is ticked or cleared, or a code is typed; the App keeps it only for a
\* sheet it wants answered.
Acknowledge ==
    /\ dialog # 0 /\ dialog = sheet /\ kind # "question"
    /\ ready' \in BOOLEAN
    /\ UNCHANGED <<shell, model, sheet, dialog, native>>

-----------------------------------------------------------------------------
(* windows.rs *)

\* A mutant: the latch is kept when nothing is left to confirm.
TimerFiresLatched ==
    /\ shell = "windows" /\ scheduled /\ scheduled' = FALSE
    /\ IF sheet = 0 THEN UNCHANGED dialog ELSE dialog' = sheet
    /\ UNCHANGED <<shell, model, sheet, ready, held, confirming>>

\* `confirm`, in the handler of TIMER_CONFIRM.
TimerFires ==
    /\ shell = "windows" /\ scheduled /\ scheduled' = FALSE
    /\ IF sheet = 0
       THEN confirming' = FALSE /\ UNCHANGED dialog
       ELSE dialog' = sheet /\ UNCHANGED confirming
    /\ UNCHANGED <<shell, model, sheet, ready, held>>

\* The task dialog returns: an answer goes to the sheet the App then wants answered.
DialogReturns(confirms) ==
    /\ RepaintWindows(AnswerSheet(confirms), 0, FALSE)
    /\ ready' = (sheet = 0 /\ ready)

\* on_confirm lets the button work only if the App has it enabled. The typed
\* challenge (confirm_code) is a window of its own with the same rule.
PressWindows ==
    /\ shell = "windows" /\ dialog # 0
    /\ \E confirms \in {FALSE, sheet # 0 /\ ready} : DialogReturns(confirms)
    /\ UNCHANGED <<shell, model>>

\* on_confirm, Timer: a dialog whose sheet was withdrawn cancels itself.
DialogTick ==
    /\ shell = "windows" /\ dialog # 0 /\ sheet = 0
    /\ DialogReturns(FALSE)
    /\ UNCHANGED <<shell, model>>

-----------------------------------------------------------------------------
(* linux.rs, mac.rs: a dialog answers the sheet it is held for, and closes.  *)

Respond ==
    IF held = 0
    THEN dialog' = 0 /\ UNCHANGED <<sheet, ready, native>>
    ELSE /\ \E confirms \in {FALSE, ready} : RepaintHeld(AnswerSheet(confirms), 0, 0)
         /\ ready' = FALSE

\* linux.rs, connect_response: a button, or Escape.
Response ==
    /\ shell = "linux" /\ dialog # 0
    /\ Respond
    /\ UNCHANGED <<shell, model>>

\* mac.rs, the completion handler of the sheet.
SheetEnds ==
    /\ shell = "mac" /\ dialog # 0
    /\ Respond
    /\ UNCHANGED <<shell, model>>

-----------------------------------------------------------------------------
(* egui_shell.rs *)

\* A frame on its own; the App's waker asks for one whenever there is news.
Frame ==
    /\ shell = "egui" /\ dialog # sheet /\ dialog' = sheet
    /\ UNCHANGED <<shell, model, sheet, ready, native>>

\* A click on the window's buttons, or on its close box.
Click ==
    /\ shell = "egui" /\ dialog # 0 /\ dialog = sheet
    /\ \E confirms \in {FALSE, ready} : RepaintEgui(AnswerSheet(confirms), FALSE)
    /\ ready' = FALSE
    /\ UNCHANGED <<shell, model>>

-----------------------------------------------------------------------------
User ==
    \/ Start \/ AskCode \/ Acknowledge
    \/ PressWindows \/ Response \/ SheetEnds \/ Click
Paints == TimerFires \/ DialogTick \/ Frame

ShellNext == User \/ AskSheet \/ JobEnds \/ Paints

ShellFairness == WF_shellVars(Paints)

ShellSpec == ShellInit /\ [][ShellNext]_shellVars /\ ShellFairness
-----------------------------------------------------------------------------
\* A question reaches the user: again and again the screen shows the sheet that the
\* App wants answered, or neither has one. So a sheet that stays wanted comes on the
\* screen, and a dialog whose sheet was withdrawn does not stay there, over a window
\* that nothing else can be done in. (windows.rs: the latch `confirming`; linux.rs,
\* mac.rs: render_confirm; egui_shell.rs: render.)
SheetsAreShown == []<>(dialog = sheet)
=============================================================================
