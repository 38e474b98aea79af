------------------------------ MODULE CameraView ------------------------------
(* camera_view.py: what the window keeps of the frames it was given.  A result *)
(* is a record [n, number, pass, waiting]: the frame, its number in the run,   *)
(* whether its tag passed, and whether H.264 still waits for a key frame.      *)
EXTENDS Integers, Sequences

NoPicture == 0

Fail == -1   \* the red panel

(* View.__init__ 119-142: nothing shown, the third panel empty.                *)
NewView == [shown |-> 0, plain |-> NoPicture, hold |-> FALSE, failed |-> 0, started |-> FALSE]

(* Mutant: only the frame drawn last is looked at.                             *)
AnyFailedOfLast(due) == ~due[Len(due)].pass

AnyFailed(due) == \E i \in DOMAIN due : ~due[i].pass

(* Mutant: a failed frame leaves the picture before it in the panel.           *)
PictureStale(last, plain) == IF ~last.pass \/ last.waiting THEN plain ELSE last.number

(* The picture the third panel gets: none of a failed or an undecoded frame.   *)
Picture(last, plain) == IF ~last.pass \/ last.waiting THEN NoPicture ELSE last.number

LastFailed(due) == LET fails == {i \in DOMAIN due : ~due[i].pass} IN due[CHOOSE i \in fails : \A j \in fails : j <= i].number

(* View._take_results: every frame due is looked at, the last one is drawn.    *)
TakeResults(view, due) == LET last == due[Len(due)] IN
    [view EXCEPT !.shown = last.number,
                 !.plain = Picture(last, @),
                 !.hold = @ \/ AnyFailed(due),
                 !.failed = IF AnyFailed(due) THEN LastFailed(due) ELSE @,
                 !.started = TRUE]

(* View._third_panel: the picture, unless a failure is held or there is none.  *)
ThirdPanel(view) == IF ~view.started THEN NoPicture
                    ELSE IF ~view.hold /\ view.plain # NoPicture THEN view.plain ELSE Fail
===============================================================================
