----------------------- MODULE ActivityManagerProofs -----------------------
(***************************************************************************)
(* What holds of the screens whatever activities there are and however     *)
(* deep they are pushed: types, who holds the lock, who waits for whom,    *)
(* and that an answer of requestUpdateAndWait is true.                     *)
(***************************************************************************)
EXTENDS ActivityManager, SequenceTheorems, TLAPS

-----------------------------------------------------------------------------
(***************************************************************************)
(* There is no current activity only between the last pop and the launch   *)
(* of Home.                                                                *)
(***************************************************************************)
CurrentOK == main = "launch" <=> current = None

(* A pending push has its place on the stack.                              *)
RoomOK == pending.action = "push" => Len(stack) < MaxDepth

(* Each task holds the lock exactly where its code says so.                *)
LockOK ==
  /\ lock = "render" <=> painter \in {"drawing", "answer", "release"}
  /\ lock = "main" <=> main = "holding"
  /\ drawing # None => lock = "render"

(* The main task is registered or woken only inside requestUpdateAndWait,  *)
(* and not both.                                                           *)
WaitOK ==
  /\ waiter \/ woken => main \in {"kick", "waiting"}
  /\ ~(waiter /\ woken)
  /\ main = "kick" => waiter \/ woken
  /\ main = "waiting" =>
       woken \/ (waiter /\ (notified \/ painter \in {"lock", "drawing", "answer"}))

(* A drawing under way, and one that a woken task was told of, shows what  *)
(* is to be shown.                                                         *)
ScreenOK ==
  /\ painter \in {"drawing", "answer"} /\ current # None => screen # "stale"
  /\ woken => screen # "stale"

Inv ==
  /\ TypeOK /\ CurrentOK /\ RoomOK /\ LockOK /\ WaitOK /\ ScreenOK
  /\ DrawsTheCurrent /\ PendingIsComplete

-----------------------------------------------------------------------------
LEMMA InitInv == Init => Inv
<1> SUFFICES ASSUME Init PROVE Inv
  OBVIOUS
<1>1. stack \in Seq(Activities) /\ Len(stack) <= MaxDepth
  BY BoundsAssumption DEF Init
<1>2. pending \in [action : {"none", "push", "pop", "replace"},
                   activity : Activities \cup {None}]
  BY DEF Init, Nothing
<1>3. handler \in [Activities -> Activities \cup {None}] /\ chain \in 0..MaxChain
  BY BoundsAssumption DEF Init
<1>4. TypeOK
  BY <1>1, <1>2, <1>3 DEF Init, TypeOK, Places
<1>5. CurrentOK /\ RoomOK /\ LockOK /\ WaitOK /\ ScreenOK
  BY DEF Init, CurrentOK, RoomOK, LockOK, WaitOK, ScreenOK, Nothing
<1>6. DrawsTheCurrent /\ PendingIsComplete
  BY DEF Init, DrawsTheCurrent, PendingIsComplete, Nothing
<1>7. QED
  BY <1>4, <1>5, <1>6 DEF Inv

LEMMA Stutter == ASSUME Inv, UNCHANGED vars PROVE Inv'
BY DEF vars, nav, task, sync, paint, Inv, TypeOK, CurrentOK, RoomOK, LockOK, WaitOK,
       ScreenOK, DrawsTheCurrent, PendingIsComplete, Places

-----------------------------------------------------------------------------
(***************************************************************************)
(* A request for navigation, whoever makes it and whatever it drops.       *)
(***************************************************************************)
PendingOK ==
  /\ pending \in [action : {"none", "push", "pop", "replace"},
                  activity : Activities \cup {None}]
  /\ handler \in [Activities -> Activities \cup {None}]
  /\ asked \subseteq Activities
  /\ RoomOK /\ PendingIsComplete

Request ==
  \/ \E a \in Activities : \/ \E forResult \in BOOLEAN : Push(a, forResult)
                           \/ Replace(a)
  \/ Pop

LEMMA RequestInv ==
  ASSUME Inv, current # None, Request, UNCHANGED <<current, stack>>
  PROVE  PendingOK'
<1> USE NoneAssumption DEF PendingOK, RoomOK, PendingIsComplete, Inv, TypeOK
<1>1. CASE \E a \in Activities, forResult \in BOOLEAN : Push(a, forResult)
  BY <1>1 DEF Push
<1>2. CASE \E a \in Activities : Replace(a)
  BY <1>2 DEF Replace
<1>3. CASE Pop
  BY <1>3 DEF Pop
<1>4. QED
  BY <1>1, <1>2, <1>3 DEF Request

NavTypes ==
  /\ current \in Activities \cup {None}
  /\ stack \in Seq(Activities) /\ Len(stack) <= MaxDepth
  /\ pending \in [action : {"none", "push", "pop", "replace"},
                  activity : Activities \cup {None}]
  /\ handler \in [Activities -> Activities \cup {None}]
  /\ asked \subseteq Activities /\ alive \subseteq Activities

TaskTypes ==
  /\ main \in Places /\ code \in {"loop", "enter", "result"}
  /\ chain \in 0..MaxChain
  /\ alert \in BOOLEAN /\ requested \in BOOLEAN

SyncTypes ==
  /\ lock \in {"none", "main", "render"}
  /\ notified \in BOOLEAN /\ waiter \in BOOLEAN /\ woken \in BOOLEAN
  /\ painter \in {"wait", "lock", "drawing", "answer", "release"}
  /\ drawing \in Activities \cup {None}
  /\ screen \in {"fresh", "stale", "raced"}

LEMMA SameNav ==
  ASSUME TypeOK, UNCHANGED nav, TaskTypes', SyncTypes'
  PROVE  TypeOK'
<1>1. NavTypes'
  BY DEF TypeOK, NavTypes, nav
<1>2. QED
  BY <1>1 DEF NavTypes, TaskTypes, SyncTypes, TypeOK

LEMMA SyncStepTypes ==
  ASSUME TypeOK, Rendered \/ Flush \/ TakeNotification
  PROVE  TypeOK'
<1>1. UNCHANGED nav
  BY DEF Rendered, Flush, TakeNotification
<1>2. TaskTypes'
  BY DEF TypeOK, TaskTypes, Places, Rendered, Flush, TakeNotification, task
<1>3. SyncTypes'
  BY DEF TypeOK, SyncTypes, Rendered, Flush, TakeNotification, paint
<1>4. QED
  BY <1>1, <1>2, <1>3, SameNav

(***************************************************************************)
(* Steps of the main task, and of the code either task runs, that ask for  *)
(* no navigation.                                                          *)
(***************************************************************************)
LEMMA MainInv ==
  ASSUME Inv,
         \/ TakeLock \/ Unlock \/ RequestUpdate \/ RequestUpdateNow \/ Wait
         \/ Rejected \/ Kick \/ Rendered \/ Return \/ Resume
         \/ Flush \/ LoopActivity \/ Enter \/ RaiseAlert \/ DrawAgain
  PROVE  Inv'
<1> USE NoneAssumption, BoundsAssumption
        DEF Inv, vars, nav, task, sync, paint, TypeOK, CurrentOK, RoomOK, LockOK, WaitOK, ScreenOK,
             DrawsTheCurrent, PendingIsComplete, Places
<1>1. CASE TakeLock
  BY <1>1 DEF TakeLock, Changed
<1>2. CASE Unlock
  BY <1>2 DEF Unlock
<1>3. CASE RequestUpdate
  BY <1>3 DEF RequestUpdate
<1>4. CASE RequestUpdateNow
  BY <1>4 DEF RequestUpdateNow
<1>5. CASE Wait
  BY <1>5 DEF Wait, MayWait
<1>6. CASE Rejected
  BY <1>6 DEF Rejected, MayWait
<1>7. CASE Kick
  BY <1>7 DEF Kick
<1>8. CASE Rendered
  <2>1. TypeOK'
    BY ONLY SyncStepTypes, <1>8, Inv DEF Inv
  <2>2. WaitOK' /\ ScreenOK'
    BY <1>8 DEF Rendered
  <2>3. CurrentOK' /\ RoomOK' /\ LockOK' /\ DrawsTheCurrent' /\ PendingIsComplete'
    BY <1>8 DEF Rendered
  <2>4. QED
    BY <2>1, <2>2, <2>3
<1>9. CASE Return
  BY <1>9 DEF Return, After
<1>10. CASE Resume
  BY <1>10 DEF Resume
<1>11. CASE Flush
  <2>1. TypeOK'
    BY ONLY SyncStepTypes, <1>11, Inv DEF Inv
  <2>2. WaitOK' /\ ScreenOK'
    BY <1>11 DEF Flush
  <2>3. CurrentOK' /\ RoomOK' /\ LockOK' /\ DrawsTheCurrent' /\ PendingIsComplete'
    BY <1>11 DEF Flush
  <2>4. QED
    BY <2>1, <2>2, <2>3
<1>12. CASE LoopActivity
  BY <1>12 DEF LoopActivity
<1>13. CASE Enter
  BY <1>13 DEF Enter, Changed
<1>14. CASE RaiseAlert
  BY <1>14 DEF RaiseAlert
<1>15. CASE DrawAgain
  BY <1>15 DEF DrawAgain
<1>16. QED
  BY <1>1, <1>2, <1>3, <1>4, <1>5, <1>6, <1>7, <1>8, <1>9, <1>10, <1>11, <1>12, <1>13, <1>14, <1>15

(***************************************************************************)
(* Steps of the render task.                                               *)
(***************************************************************************)
LEMMA PaintingInv ==
  ASSUME Inv,
         \/ TakeNotification \/ StartDrawing \/ FinishDrawing \/ Answer \/ Release
  PROVE  Inv'
<1> USE NoneAssumption, BoundsAssumption
        DEF Inv, vars, nav, task, sync, paint, TypeOK, CurrentOK, RoomOK, LockOK, WaitOK, ScreenOK,
             DrawsTheCurrent, PendingIsComplete, Places
<1>1. CASE TakeNotification
  <2>1. TypeOK'
    BY ONLY SyncStepTypes, <1>1, Inv DEF Inv
  <2>2. WaitOK' /\ ScreenOK'
    BY <1>1 DEF TakeNotification
  <2>3. CurrentOK' /\ RoomOK' /\ LockOK' /\ DrawsTheCurrent' /\ PendingIsComplete'
    BY <1>1 DEF TakeNotification
  <2>4. QED
    BY <2>1, <2>2, <2>3
<1>2. CASE StartDrawing
  BY <1>2 DEF StartDrawing
<1>3. CASE FinishDrawing
  BY <1>3 DEF FinishDrawing
<1>4. CASE Answer
  <2>1. TypeOK'
    <3>1. waiter' \in BOOLEAN /\ woken' \in BOOLEAN
      BY <1>4 DEF Answer
    <3>2. UNCHANGED <<nav, task>>
      BY <1>4 DEF Answer
    <3>3. QED
      BY <1>4, <3>1, <3>2 DEF Answer
  <2>2. WaitOK' /\ ScreenOK'
    BY <1>4 DEF Answer
  <2>3. CurrentOK' /\ RoomOK' /\ LockOK' /\ DrawsTheCurrent' /\ PendingIsComplete'
    BY <1>4 DEF Answer
  <2>4. QED
    BY <2>1, <2>2, <2>3
<1>5. CASE Release
  BY <1>5 DEF Release
<1>6. QED
  BY <1>1, <1>2, <1>3, <1>4, <1>5

(***************************************************************************)
(* Steps of the main task that may ask for a navigation.                   *)
(***************************************************************************)
Asking ==
  \/ \E a \in Activities : GlobalAction(a) \/ LightPanelGesture(a)
  \/ Navigate \/ ShowAlert

LEMMA AskingInv ==
  ASSUME Inv, Asking
  PROVE  Inv'
<1>1. current # None
  BY DEF Asking, GlobalAction, LightPanelGesture, Navigate, ShowAlert, Inv, CurrentOK
<1>2. UNCHANGED <<current, stack, alive, code, requested, sync, paint>>
  BY DEF Asking, GlobalAction, LightPanelGesture, Navigate, ShowAlert
<1>3. Request \/ UNCHANGED <<pending, handler, asked>>
  BY DEF Asking, GlobalAction, LightPanelGesture, Navigate, ShowAlert, Request
<1>4. PendingOK'
  BY <1>1, <1>2, <1>3, RequestInv
     DEF PendingOK, RoomOK, PendingIsComplete, Inv, TypeOK
<1>5. /\ main \in {"idle", "ready", "code", "last", "pending"}
      /\ main' \in {"ready", "idle", "resume", "pending", "flush"}
      /\ alert' \in {alert, FALSE}
  BY DEF Asking, GlobalAction, LightPanelGesture, Navigate, ShowAlert, After
<1>6. TypeOK'
  <2>1. chain' = chain \/ (chain < MaxChain /\ chain' = chain + 1)
    BY DEF Asking, GlobalAction, LightPanelGesture, Navigate, ShowAlert
  <2>2. chain' \in 0..MaxChain
    BY <2>1, BoundsAssumption DEF Inv, TypeOK
  <2>3. alert' \in BOOLEAN /\ main' \in Places
    BY <1>5 DEF Inv, TypeOK, Places
  <2>4. QED
    BY <1>2, <1>4, <2>2, <2>3 DEF PendingOK, Inv, TypeOK, sync, paint
<1>7. CurrentOK' /\ LockOK' /\ WaitOK' /\ ScreenOK' /\ DrawsTheCurrent'
  BY <1>1, <1>2, <1>5
     DEF Inv, CurrentOK, LockOK, WaitOK, ScreenOK, DrawsTheCurrent, sync, paint
<1>8. QED
  BY <1>4, <1>6, <1>7 DEF Inv, PendingOK

-----------------------------------------------------------------------------
(***************************************************************************)
(* The loop over pending actions, and a launch.                            *)
(***************************************************************************)
LEMMA PopTopInv ==
  ASSUME Inv, PopTop
  PROVE  Inv'
<1> USE NoneAssumption DEF Inv
<1>1. lock = "none" /\ main = "pending" /\ current # None
  BY DEF PopTop, Exclusive, CurrentOK
<1>2. drawing = None /\ painter \in {"wait", "lock"} /\ ~waiter /\ ~woken
  BY <1>1 DEF LockOK, WaitOK, TypeOK
<1>3. UNCHANGED <<chain, alert, sync, painter, drawing>>
  BY DEF PopTop
<1>4. pending' = Nothing
  BY DEF PopTop
<1>5. CASE stack = <<>>
  <2>1. current' = None /\ main' = "launch" /\ UNCHANGED <<stack, handler, asked, code, requested>>
    BY <1>5 DEF PopTop
  <2>2. TypeOK'
    BY <1>3, <1>4, <2>1 DEF PopTop, TypeOK, Nothing, Changed, Places, sync
  <2>3. QED
    BY <1>1, <1>2, <1>3, <1>4, <2>1, <2>2
       DEF CurrentOK, RoomOK, LockOK, WaitOK, ScreenOK, DrawsTheCurrent,
           PendingIsComplete, Nothing, sync
<1>6. CASE stack # <<>>
  <2>1. /\ Last \in Activities
        /\ SubSeq(stack, 1, Len(stack) - 1) \in Seq(Activities)
        /\ Len(SubSeq(stack, 1, Len(stack) - 1)) <= MaxDepth
    BY <1>6, BoundsAssumption DEF TypeOK, Last
  <2>2. /\ current' = Last /\ stack' = SubSeq(stack, 1, Len(stack) - 1)
        /\ asked' = asked \ {current}
        /\ handler' = [handler EXCEPT ![Last] = None]
        /\ main' \in {"code", "pending"} /\ code' \in {code, "result"}
        /\ requested' \in {requested, TRUE}
    BY <1>6 DEF PopTop
  <2>3. screen' = Changed /\ alive' = alive \ {current}
    BY DEF PopTop
  <2>4. TypeOK'
    <3>1. UNCHANGED <<chain, alert, lock, notified, waiter, woken, painter, drawing>>
      BY <1>3 DEF sync
    <3>2. current' \in Activities /\ stack' \in Seq(Activities) /\ Len(stack') <= MaxDepth
      BY <2>1, <2>2
    <3>3. /\ asked' \subseteq Activities /\ alive' \subseteq Activities
          /\ handler' \in [Activities -> Activities \cup {None}]
      BY <2>1, <2>2, <2>3 DEF TypeOK
    <3>4. /\ main' \in Places /\ code' \in {"loop", "enter", "result"}
          /\ requested' \in BOOLEAN
      BY <2>2 DEF TypeOK, Places
    <3>5. screen' \in {"fresh", "stale", "raced"}
      BY <2>3 DEF TypeOK, Changed
    <3>6. QED
      BY <1>4, <3>1, <3>2, <3>3, <3>4, <3>5 DEF TypeOK, Nothing
  <2>5. QED
    BY <1>1, <1>2, <1>3, <1>4, <2>1, <2>2, <2>4
       DEF CurrentOK, RoomOK, LockOK, WaitOK, ScreenOK, DrawsTheCurrent,
           PendingIsComplete, Nothing, sync
<1>7. QED
  BY <1>5, <1>6

LEMMA PushPendingInv ==
  ASSUME Inv, PushPending
  PROVE  Inv'
<1> USE NoneAssumption DEF Inv
<1>1. /\ lock = "none" /\ main = "pending"
      /\ current \in Activities /\ pending.activity \in Activities
      /\ Len(stack) < MaxDepth
  BY DEF PushPending, Exclusive, CurrentOK, RoomOK, PendingIsComplete, TypeOK
<1>2. drawing = None /\ painter \in {"wait", "lock"} /\ ~waiter /\ ~woken
  BY <1>1 DEF LockOK, WaitOK, TypeOK
<1>3. /\ Append(stack, current) \in Seq(Activities)
      /\ Len(Append(stack, current)) <= MaxDepth
  BY <1>1, BoundsAssumption DEF TypeOK
<1>4. TypeOK'
  BY <1>1, <1>3 DEF PushPending, TypeOK, Nothing, Changed, Places, sync
<1>5. QED
  BY <1>1, <1>2, <1>4
     DEF PushPending, CurrentOK, RoomOK, LockOK, WaitOK, ScreenOK, DrawsTheCurrent,
         PendingIsComplete, Nothing, sync

LEMMA ReplacePendingInv ==
  ASSUME Inv, ReplacePending
  PROVE  Inv'
<1> USE NoneAssumption DEF Inv
<1>1. /\ lock = "none" /\ main = "pending" /\ pending.activity \in Activities
  BY DEF ReplacePending, Exclusive, PendingIsComplete, TypeOK
<1>2. drawing = None /\ painter \in {"wait", "lock"} /\ ~waiter /\ ~woken
  BY <1>1 DEF LockOK, WaitOK, TypeOK
<1>3. <<>> \in Seq(Activities) /\ Len(<<>>) <= MaxDepth
  BY BoundsAssumption
<1>4. [a \in Activities |-> None] \in [Activities -> Activities \cup {None}]
  OBVIOUS
<1>5. TypeOK'
  BY <1>1, <1>3, <1>4 DEF ReplacePending, ExitAll, TypeOK, Nothing, Changed, Places, sync
<1>6. QED
  BY <1>1, <1>2, <1>5
     DEF ReplacePending, CurrentOK, RoomOK, LockOK, WaitOK, ScreenOK, DrawsTheCurrent,
         PendingIsComplete, Nothing, sync

LEMMA LaunchInv ==
  ASSUME Inv, NEW a \in Activities, Launch(a)
  PROVE  Inv'
<1> USE NoneAssumption DEF Inv
<1>1. main = "launch" /\ current = None /\ drawing = None
  BY DEF Launch, CurrentOK, DrawsTheCurrent
<1>2. ~waiter /\ ~woken
  BY <1>1 DEF WaitOK, TypeOK
<1>3. TypeOK'
  BY DEF Launch, TypeOK, Places, sync
<1>4. QED
  BY <1>1, <1>2, <1>3
     DEF Launch, CurrentOK, RoomOK, LockOK, WaitOK, ScreenOK, DrawsTheCurrent,
         PendingIsComplete, sync

-----------------------------------------------------------------------------
LEMMA NextInv ==
  ASSUME Inv, [Next]_vars
  PROVE  Inv'
<1>1. CASE UNCHANGED vars
  BY <1>1, Stutter
<1>2. CASE Running
  BY <1>2, MainInv, AskingInv, PopTopInv, PushPendingInv, ReplacePendingInv, LaunchInv
     DEF Running, Asking
<1>3. CASE LoopActivity
  BY <1>3, MainInv
<1>4. CASE Painting
  BY <1>4, PaintingInv DEF Painting
<1>5. CASE User
  BY <1>5, MainInv, AskingInv DEF User, Asking
<1>6. QED
  BY <1>1, <1>2, <1>3, <1>4, <1>5 DEF Next

LEMMA SpecInv == Spec => []Inv
BY InitInv, NextInv, PTL DEF Spec

-----------------------------------------------------------------------------
(***************************************************************************)
(* An activity has one place on the screen and below it; a launch finds    *)
(* nothing there and nothing pending.                                      *)
(***************************************************************************)
DistinctOK ==
  /\ \A i, j \in 1..Len(stack) : stack[i] = stack[j] => i = j
  /\ \A i \in 1..Len(stack) : stack[i] # current
  /\ pending.action = "push" =>
       /\ pending.activity # current
       /\ \A i \in 1..Len(stack) : stack[i] # pending.activity
  /\ current = None => stack = <<>> /\ pending.action = "none"

(***************************************************************************)
(* What the handler of each activity waits for: below the current one, the *)
(* child above it; the current one, the child that is about to be pushed   *)
(* and cannot be dropped any more; everyone else, nothing.                 *)
(***************************************************************************)
Child(a) == IF a \in asked THEN a ELSE None

Pushing == pending.action = "push" /\ pending.activity \in asked

HandlerOK ==
  /\ \A i \in 1..Len(stack) : i < Len(stack) => handler[stack[i]] = Child(stack[i + 1])
  /\ stack # <<>> => handler[stack[Len(stack)]] = Child(current)
  /\ current # None => handler[current] = IF Pushing THEN pending.activity ELSE None
  /\ \A a \in Activities : a # current /\ a \notin Below => handler[a] = None
  /\ Pushing => main \in {"resume", "pending"}

ScreensInv == Inv /\ DistinctOK /\ HandlerOK /\ AliveOnScreen

LEMMA InitScreens == Init => ScreensInv
<1> SUFFICES ASSUME Init PROVE ScreensInv
  OBVIOUS
<1>1. Inv
  BY InitInv
<1>2. Below = {} /\ Len(stack) = 0
  BY DEF Init, Below
<1>3. DistinctOK
  BY <1>2 DEF Init, DistinctOK, Nothing
<1>4. HandlerOK
  BY <1>2 DEF Init, HandlerOK, Pushing, Nothing
<1>5. AliveOnScreen
  BY <1>2 DEF Init, AliveOnScreen
<1>6. QED
  BY <1>1, <1>3, <1>4, <1>5 DEF ScreensInv

LEMMA ScreensInvWorks == ScreensInv => ResultsFindTheirParent
<1> SUFFICES ASSUME ScreensInv PROVE ResultsFindTheirParent
  OBVIOUS
<1> USE DEF ScreensInv, Inv
<1>1. ASSUME NEW i \in 1..Len(stack), i < Len(Screens)
      PROVE  handler[Screens[i]] = IF Screens[i + 1] \in asked THEN Screens[i + 1] ELSE None
  <2>1. stack \in Seq(Activities) /\ Len(stack) \in Nat
    BY DEF TypeOK
  <2>2. current # None /\ Screens = Append(stack, current)
    BY <1>1, <2>1 DEF Screens, DistinctOK
  <2>3. Screens[i] = stack[i]
    BY <2>1, <2>2
  <2>4. CASE i = Len(stack)
    <3>1. Screens[i + 1] = current /\ stack # <<>>
      BY <2>1, <2>2, <2>4
    <3>2. QED
      BY <2>3, <2>4, <3>1 DEF HandlerOK, Child
  <2>5. CASE i < Len(stack)
    <3>1. Screens[i + 1] = stack[i + 1]
      BY <2>1, <2>2, <2>5
    <3>2. QED
      BY <2>3, <2>5, <3>1 DEF HandlerOK, Child
  <2>6. QED
    BY <2>1, <2>4, <2>5
<1>2. Pushing => handler[current] = pending.activity
  BY DEF Pushing, HandlerOK, CurrentOK
<1>3. QED
  BY <1>1, <1>2 DEF ResultsFindTheirParent, Pushing

(***************************************************************************)
(* Everything but a request for navigation and the loop over pending       *)
(* actions leaves the activities alone.                                    *)
(***************************************************************************)
LEMMA QuietScreens ==
  ASSUME ScreensInv, UNCHANGED nav, main = "enter" <=> main' = "enter",
         Pushing => main' \in {"resume", "pending"}
  PROVE  DistinctOK' /\ HandlerOK' /\ AliveOnScreen'
BY DEF nav, ScreensInv, DistinctOK, HandlerOK, Child, Pushing, AliveOnScreen, Below

LEMMA MainScreens ==
  ASSUME ScreensInv,
         \/ TakeLock \/ Unlock \/ RequestUpdate \/ RequestUpdateNow \/ Wait
         \/ Rejected \/ Kick \/ Rendered \/ Return \/ Resume
         \/ Flush \/ LoopActivity \/ RaiseAlert \/ DrawAgain \/ Painting
  PROVE  DistinctOK' /\ HandlerOK' /\ AliveOnScreen'
<1>1. UNCHANGED nav
  BY DEF TakeLock, Unlock, RequestUpdate, RequestUpdateNow, Wait, Rejected, Kick, Rendered,
         Return, Resume, Flush, LoopActivity, RaiseAlert, DrawAgain, Painting,
         TakeNotification, StartDrawing, FinishDrawing, Answer, Release, nav
<1>2. \/ main' = main
      \/ main # "enter" /\ main' # "enter" /\ main \notin {"resume", "pending"}
      \/ main = "resume" /\ main' = "pending"
  BY DEF TakeLock, Unlock, RequestUpdate, RequestUpdateNow, Wait, Rejected, Kick, Rendered,
         Return, After, Resume, Flush, LoopActivity, RaiseAlert, DrawAgain, Painting,
         TakeNotification, StartDrawing, FinishDrawing, Answer, Release, task
<1>3. Pushing => main \in {"resume", "pending"}
  BY DEF ScreensInv, HandlerOK
<1>4. (main = "enter" <=> main' = "enter") /\ (Pushing => main' \in {"resume", "pending"})
  BY <1>2, <1>3
<1>5. QED
  BY <1>1, <1>4, QuietScreens

LEMMA EnterScreens ==
  ASSUME ScreensInv, Enter
  PROVE  DistinctOK' /\ HandlerOK' /\ AliveOnScreen'
<1>1. main = "enter" /\ main' # "enter" /\ current # None /\ ~Pushing
  BY DEF Enter, ScreensInv, Inv, CurrentOK, HandlerOK
<1>2. UNCHANGED <<current, stack, pending, handler, asked>> /\ alive' = alive \cup {current}
  BY DEF Enter
<1>3. DistinctOK' /\ HandlerOK'
  BY <1>1, <1>2 DEF ScreensInv, DistinctOK, HandlerOK, Child, Pushing, Below
<1>4. current \notin Below /\ None \notin Below
  BY NoneAssumption DEF ScreensInv, Inv, TypeOK, DistinctOK, Below
<1>5. AliveOnScreen'
  BY <1>1, <1>2, <1>4 DEF ScreensInv, AliveOnScreen, Below
<1>6. QED
  BY <1>3, <1>5

(***************************************************************************)
(* A request drops nobody's result: it comes when no child is pending.     *)
(***************************************************************************)
LEMMA AskingScreens ==
  ASSUME ScreensInv, Asking
  PROVE  DistinctOK' /\ HandlerOK' /\ AliveOnScreen'
<1> USE DEF ScreensInv, Inv
<1>1. /\ current # None /\ current \in Activities
      /\ main \in {"idle", "ready", "code", "last"} \/ (main = "pending" /\ pending = Nothing)
      /\ main # "enter" /\ main' # "enter"
  <2>1. main \in {"idle", "ready", "code", "last"} \/ (main = "pending" /\ pending = Nothing)
    BY DEF Asking, GlobalAction, LightPanelGesture, Navigate, ShowAlert
  <2>2. main' \in {"idle", "ready", "resume", "pending", "flush"}
    BY DEF Asking, GlobalAction, LightPanelGesture, Navigate, ShowAlert, After
  <2>3. QED
    BY <2>1, <2>2 DEF CurrentOK, TypeOK
<1>2. UNCHANGED <<current, stack, alive>>
  BY DEF Asking, GlobalAction, LightPanelGesture, Navigate, ShowAlert
<1>3. ~Pushing
  BY <1>1 DEF HandlerOK, Pushing, Nothing
<1>4. AliveOnScreen'
  BY <1>1, <1>2 DEF AliveOnScreen, Below
<1>5. ASSUME NEW a \in Activities, Push(a, TRUE), main' \in {"resume", "pending"}
      PROVE  DistinctOK' /\ HandlerOK'
  <2>1. /\ a \notin Below /\ a # current
        /\ pending' = [action |-> "push", activity |-> a]
        /\ asked' = asked \cup {a} /\ handler' = [handler EXCEPT ![current] = a]
    BY <1>5 DEF Push, New
  <2>2. DistinctOK'
    BY <1>1, <1>2, <2>1 DEF DistinctOK, Below
  <2>3. Pushing' /\ pending'.activity = a
    BY <2>1 DEF Pushing
  <2>4. handler'[current] = a /\ \A b \in Activities : b # current => handler'[b] = handler[b]
    BY <1>1, <2>1 DEF TypeOK
  <2>5. \A i \in 1..Len(stack) : stack[i] \in Activities /\ stack[i] # current /\ stack[i] # a
    BY <2>1 DEF TypeOK, DistinctOK, Below
  <2>6. \A i \in 1..Len(stack) : i < Len(stack) =>
          handler'[stack[i]] = (IF stack[i + 1] \in asked' THEN stack[i + 1] ELSE None)
    BY <2>1, <2>4, <2>5 DEF HandlerOK, Child, TypeOK
  <2>7. stack # <<>> => handler'[stack[Len(stack)]] = (IF current \in asked' THEN current ELSE None)
    BY <2>1, <2>4, <2>5 DEF HandlerOK, Child, TypeOK
  <2>8. QED
    BY <1>2, <1>5, <2>2, <2>3, <2>4, <2>6, <2>7 DEF HandlerOK, Child, Below
<1>6. ASSUME NEW a \in Activities, Push(a, FALSE) \/ Replace(a)
      PROVE  DistinctOK' /\ HandlerOK'
  <2>1. /\ a \notin Below /\ a # current
        /\ pending'.activity = a /\ asked' = asked \ {a} /\ handler' = handler
    BY <1>6 DEF Push, Replace, New
  <2>2. DistinctOK'
    BY <1>1, <1>2, <2>1 DEF DistinctOK, Below
  <2>3. ~Pushing'
    BY <2>1 DEF Pushing
  <2>4. \A i \in 1..Len(stack) : stack[i] # a
    BY <2>1 DEF Below
  <2>5. \A i \in 1..Len(stack) : i < Len(stack) =>
          handler[stack[i]] = (IF stack[i + 1] \in asked' THEN stack[i + 1] ELSE None)
    BY <2>1, <2>4 DEF HandlerOK, Child, TypeOK
  <2>6. stack # <<>> => handler[stack[Len(stack)]] = (IF current \in asked' THEN current ELSE None)
    BY <2>1 DEF HandlerOK, Child
  <2>7. QED
    BY <1>2, <1>3, <2>1, <2>2, <2>3, <2>5, <2>6 DEF HandlerOK, Child, Below
<1>7. ASSUME Pop \/ UNCHANGED <<pending, handler, asked>>
      PROVE  DistinctOK' /\ HandlerOK'
  <2>1. UNCHANGED <<handler, asked>> /\ ~Pushing'
    BY <1>3, <1>7 DEF Pop, Pushing
  <2>2. DistinctOK'
    BY <1>1, <1>2, <1>7 DEF Pop, DistinctOK
  <2>3. QED
    BY <1>2, <1>3, <2>1, <2>2 DEF HandlerOK, Child, Below
<1>8. CASE Navigate
  BY <1>4, <1>5, <1>6, <1>7, <1>8 DEF Navigate, After
<1>9. CASE ShowAlert
  BY <1>4, <1>6, <1>7, <1>9 DEF ShowAlert
<1>10. CASE \E a \in Activities : GlobalAction(a) \/ LightPanelGesture(a)
  BY <1>4, <1>6, <1>10 DEF GlobalAction, LightPanelGesture
<1>11. QED
  BY <1>8, <1>9, <1>10 DEF Asking

-----------------------------------------------------------------------------
(* A sequence without its last element.                                    *)
LEMMA WithoutLast ==
  ASSUME NEW S, NEW s \in Seq(S), s # <<>>
  PROVE  /\ Len(SubSeq(s, 1, Len(s) - 1)) = Len(s) - 1
         /\ \A i \in 1..(Len(s) - 1) : SubSeq(s, 1, Len(s) - 1)[i] = s[i]
<1>1. /\ Len(s) \in Nat /\ Len(s) >= 1
      /\ \A i \in 1..Len(s) : s[i] \in S
  OBVIOUS
<1>2. PICK n \in Nat : n = Len(s) - 1
  BY <1>1
<1>3. \A i \in 1..n : s[i] \in S
  BY <1>1, <1>2
<1>4. /\ Len(SubSeq(s, 1, n)) = IF 1 <= n THEN n - 1 + 1 ELSE 0
      /\ \A i \in 1..(n - 1 + 1) : SubSeq(s, 1, n)[i] = s[1 + i - 1]
  <2>1. 1 \in Int /\ n \in Int
    OBVIOUS
  <2>2. QED
    BY <1>3, <2>1, SubSeqProperties
<1>5. Len(SubSeq(s, 1, n)) = n
  BY <1>4
<1>6. ASSUME NEW i \in 1..n PROVE SubSeq(s, 1, n)[i] = s[i]
  <2>1. i \in 1..(n - 1 + 1) /\ 1 + i - 1 = i
    OBVIOUS
  <2>2. QED
    BY <1>4, <2>1
<1>7. QED
  BY <1>2, <1>5, <1>6

LEMMA PopTopScreens ==
  ASSUME ScreensInv, PopTop
  PROVE  DistinctOK' /\ HandlerOK' /\ AliveOnScreen'
<1> USE NoneAssumption DEF ScreensInv, Inv
<1>1. /\ current # None /\ current \in Activities /\ main = "pending"
      /\ pending.action = "pop" /\ ~Pushing /\ handler[current] = None
      /\ stack \in Seq(Activities) /\ Len(stack) \in Nat
  BY DEF PopTop, CurrentOK, TypeOK, Pushing, HandlerOK
<1>2. pending' = Nothing /\ alive' = alive \ {current} /\ ~Pushing' /\ pending'.action # "push"
  BY DEF PopTop, Nothing, Pushing
<1>3. alive = Below \cup {current} /\ current \notin Below /\ None \notin Below
  BY <1>1 DEF AliveOnScreen, Below, DistinctOK, TypeOK
<1>4. CASE stack = <<>>
  <2>1. current' = None /\ main' = "launch" /\ UNCHANGED <<stack, handler, asked>>
    BY <1>4 DEF PopTop
  <2>2. Below = {} /\ Below' = {} /\ Len(stack) = 0
    BY <1>4, <2>1 DEF Below
  <2>3. DistinctOK'
    BY <1>2, <1>4, <2>1, <2>2 DEF DistinctOK, Nothing
  <2>4. HandlerOK'
    BY <1>1, <1>2, <1>4, <2>1, <2>2 DEF HandlerOK
  <2>5. AliveOnScreen'
    BY <1>2, <1>3, <2>1, <2>2 DEF AliveOnScreen
  <2>6. QED
    BY <2>3, <2>4, <2>5
<1>5. CASE stack # <<>>
  <2> DEFINE n == Len(stack)
  <2>1. n \in Nat /\ n >= 1 /\ Last = stack[n] /\ Last \in Activities
    BY <1>1, <1>5 DEF Last
  <2>2. /\ current' = Last /\ stack' = SubSeq(stack, 1, n - 1)
        /\ asked' = asked \ {current}
        /\ handler' = [handler EXCEPT ![Last] = None] /\ main' # "enter"
    BY <1>5 DEF PopTop
  <2>3. /\ Len(stack') = n - 1
        /\ \A i \in 1..(n - 1) : stack'[i] = stack[i]
    BY <1>1, <1>5, <2>1, <2>2, WithoutLast
  <2>4. Below = Below' \cup {Last} /\ Last \notin Below'
    BY <2>1, <2>3 DEF Below, DistinctOK
  <2>5. DistinctOK'
    BY <1>2, <2>1, <2>2, <2>3 DEF DistinctOK
  <2>6. AliveOnScreen'
    BY <1>2, <1>3, <2>1, <2>2, <2>4 DEF AliveOnScreen
  <2>7. handler'[Last] = None /\ \A b \in Activities : b # Last => handler'[b] = handler[b]
    BY <2>1, <2>2 DEF TypeOK
  <2>8. \A i \in 1..n : stack[i] \in Activities /\ stack[i] # current
    BY <1>1 DEF DistinctOK
  <2>9. \A i \in 1..(n - 1) : stack[i] # Last
    BY <2>1 DEF DistinctOK
  <2>10. \A i \in 1..(n - 1) :
           handler'[stack[i]] = IF stack[i + 1] \in asked' THEN stack[i + 1] ELSE None
    BY <2>1, <2>2, <2>7, <2>8, <2>9 DEF HandlerOK, Child
  <2>11. \A i \in 1..Len(stack') : i < Len(stack') =>
           handler'[stack'[i]] = IF stack'[i + 1] \in asked' THEN stack'[i + 1] ELSE None
    BY <2>1, <2>3, <2>10
  <2>12. stack' # <<>> =>
           handler'[stack'[Len(stack')]] = IF current' \in asked' THEN current' ELSE None
    <3>1. stack' # <<>> => n - 1 \in 1..(n - 1)
      BY <1>1, <2>1, <2>2, <2>3
    <3>2. QED
      BY <2>1, <2>2, <2>3, <2>10, <3>1
  <2>13. \A a \in Activities : a # current' /\ a \notin Below' => handler'[a] = None
    BY <1>1, <2>2, <2>4, <2>7 DEF HandlerOK
  <2>14. HandlerOK'
    BY <1>2, <2>2, <2>7, <2>11, <2>12, <2>13 DEF HandlerOK, Child
  <2>15. QED
    BY <2>5, <2>6, <2>14
<1>6. QED
  BY <1>4, <1>5

LEMMA PushPendingScreens ==
  ASSUME ScreensInv, PushPending
  PROVE  DistinctOK' /\ HandlerOK' /\ AliveOnScreen'
<1> USE NoneAssumption DEF ScreensInv, Inv
<1> DEFINE n == Len(stack)
           new == pending.activity
<1>1. /\ current # None /\ current \in Activities /\ main = "pending"
      /\ pending.action = "push" /\ new \in Activities
      /\ stack \in Seq(Activities) /\ n \in Nat
  BY DEF PushPending, CurrentOK, PendingIsComplete, TypeOK
<1>2. /\ current' = new /\ stack' = Append(stack, current) /\ pending' = Nothing
      /\ UNCHANGED <<handler, asked, alive>> /\ main' = "enter"
  BY DEF PushPending
<1>3. /\ Len(stack') = n + 1 /\ stack' # <<>>
      /\ stack'[n + 1] = current
      /\ \A i \in 1..n : stack'[i] = stack[i]
  BY <1>1, <1>2
<1>4. /\ new # current /\ current \notin Below /\ new \notin Below /\ None \notin Below
      /\ \A i \in 1..n : stack[i] # current /\ stack[i] # new
  BY <1>1 DEF DistinctOK, Below, TypeOK
<1>5. Below' = Below \cup {current}
  BY <1>1, <1>3 DEF Below
<1>6. DistinctOK'
  <2>1. pending'.action # "push"
    BY <1>2 DEF Nothing
  <2>2. \A i \in 1..(n + 1) : stack'[i] # new
    BY <1>1, <1>3, <1>4
  <2>3. \A i, j \in 1..(n + 1) : stack'[i] = stack'[j] => i = j
    BY <1>1, <1>3, <1>4 DEF DistinctOK
  <2>4. QED
    BY <1>1, <1>2, <1>3, <2>1, <2>2, <2>3 DEF DistinctOK
<1>7. HandlerOK'
  <2>1. ~Pushing'
    BY <1>2 DEF Pushing, Nothing
  <2>2. \A i \in 1..(n + 1) : i < n + 1 =>
          handler[stack'[i]] = IF stack'[i + 1] \in asked THEN stack'[i + 1] ELSE None
    <3>1. ASSUME NEW i \in 1..n
          PROVE  handler[stack'[i]] = IF stack'[i + 1] \in asked THEN stack'[i + 1] ELSE None
      <4>1. CASE i = n
        BY <1>1, <1>3, <4>1 DEF HandlerOK, Child
      <4>2. CASE i < n
        BY <1>1, <1>3, <4>2 DEF HandlerOK, Child
      <4>3. QED
        BY <1>1, <4>1, <4>2
    <3>2. QED
      BY <1>1, <3>1
  <2>3. handler[current] = IF new \in asked THEN new ELSE None
    BY <1>1 DEF HandlerOK, Pushing
  <2>4. handler[new] = None
    BY <1>1, <1>4 DEF HandlerOK
  <2>5. \A a \in Activities : a # new /\ a \notin Below' => handler[a] = None
    BY <1>5 DEF HandlerOK
  <2>6. QED
    BY <1>1, <1>2, <1>3, <2>1, <2>2, <2>3, <2>4, <2>5 DEF HandlerOK, Child
<1>8. AliveOnScreen'
  BY <1>1, <1>2, <1>4, <1>5 DEF AliveOnScreen
<1>9. QED
  BY <1>6, <1>7, <1>8

LEMMA ReplacePendingScreens ==
  ASSUME ScreensInv, ReplacePending
  PROVE  DistinctOK' /\ HandlerOK' /\ AliveOnScreen'
<1> USE NoneAssumption DEF ScreensInv, Inv
<1>1. pending.activity \in Activities /\ main = "pending"
  BY DEF ReplacePending, PendingIsComplete, TypeOK
<1>2. /\ current' = pending.activity /\ stack' = <<>> /\ pending' = Nothing
      /\ handler' = [a \in Activities |-> None] /\ asked' = {}
      /\ alive' = alive \ ({current} \cup Below) /\ main' = "enter"
  BY DEF ReplacePending, ExitAll
<1>3. Below' = {} /\ Len(stack') = 0
  BY <1>2 DEF Below
<1>4. ~Pushing' /\ pending'.action # "push"
  BY <1>2 DEF Pushing, Nothing
<1>5. DistinctOK'
  BY <1>1, <1>2, <1>3, <1>4 DEF DistinctOK
<1>6. HandlerOK'
  BY <1>1, <1>2, <1>3, <1>4 DEF HandlerOK
<1>7. AliveOnScreen'
  BY <1>1, <1>2, <1>3 DEF AliveOnScreen
<1>8. QED
  BY <1>5, <1>6, <1>7

LEMMA LaunchScreens ==
  ASSUME ScreensInv, NEW a \in Activities, Launch(a)
  PROVE  DistinctOK' /\ HandlerOK' /\ AliveOnScreen'
<1> USE NoneAssumption DEF ScreensInv, Inv
<1>1. current = None /\ stack = <<>> /\ main = "launch" /\ ~Pushing
  BY DEF Launch, CurrentOK, DistinctOK, HandlerOK
<1>2. /\ current' = a /\ UNCHANGED <<stack, pending, alive>>
      /\ handler' = [handler EXCEPT ![a] = None] /\ asked' = asked \ {a} /\ main' = "enter"
  BY DEF Launch
<1>3. Below = {} /\ Below' = {} /\ Len(stack) = 0
  BY <1>1, <1>2 DEF Below
<1>4. pending.action # "push"
  BY <1>1 DEF DistinctOK
<1>5. DistinctOK'
  BY <1>1, <1>2, <1>3, <1>4 DEF DistinctOK
<1>6. HandlerOK'
  <2>1. handler'[a] = None /\ \A b \in Activities : b # a => handler'[b] = handler[b]
    BY <1>2 DEF TypeOK
  <2>2. \A b \in Activities : b # a => handler[b] = None
    BY <1>1, <1>3 DEF HandlerOK
  <2>3. ~Pushing'
    BY <1>2, <1>4 DEF Pushing
  <2>4. QED
    BY <1>1, <1>2, <1>3, <2>1, <2>2, <2>3 DEF HandlerOK
<1>7. AliveOnScreen'
  BY <1>1, <1>2, <1>3 DEF AliveOnScreen
<1>8. QED
  BY <1>5, <1>6, <1>7

-----------------------------------------------------------------------------
LEMMA NextScreens ==
  ASSUME ScreensInv, [Next]_vars
  PROVE  ScreensInv'
<1>1. Inv'
  BY NextInv DEF ScreensInv
<1>2. CASE UNCHANGED vars
  BY <1>1, <1>2, QuietScreens DEF vars, task, ScreensInv, HandlerOK
<1>3. CASE Running
  BY <1>1, <1>3, MainScreens, AskingScreens, PopTopScreens, PushPendingScreens,
     ReplacePendingScreens, LaunchScreens, EnterScreens
     DEF Running, Asking, ScreensInv
<1>4. CASE LoopActivity \/ Painting
  BY <1>1, <1>4, MainScreens DEF ScreensInv
<1>5. CASE User
  BY <1>1, <1>5, MainScreens, AskingScreens DEF User, Asking, ScreensInv
<1>6. QED
  BY <1>2, <1>3, <1>4, <1>5 DEF Next

LEMMA SpecScreens == Spec => []ScreensInv
BY InitScreens, NextScreens, PTL DEF Spec

-----------------------------------------------------------------------------
(***************************************************************************)
(* Every variable keeps its type, and the stack its bound.                 *)
(***************************************************************************)
THEOREM TypeCorrect == Spec => []TypeOK
<1>1. Inv => TypeOK
  BY DEF Inv
<1>2. QED
  BY <1>1, SpecInv, PTL

(***************************************************************************)
(* No activity is deleted while it is drawn, nor between the null check    *)
(* of renderTaskLoop and render().                                         *)
(***************************************************************************)
THEOREM NothingDeletedIsDrawn == Spec => []DrawsTheCurrent
<1>1. Inv => DrawsTheCurrent
  BY DEF Inv
<1>2. QED
  BY <1>1, SpecInv, PTL

(***************************************************************************)
(* The loop over pending actions meets none that it cannot carry out.      *)
(***************************************************************************)
THEOREM PendingCanBeDone == Spec => []PendingIsComplete
<1>1. Inv => PendingIsComplete
  BY DEF Inv
<1>2. QED
  BY <1>1, SpecInv, PTL

(***************************************************************************)
(* The main task never waits in requestUpdateAndWait for a drawing that    *)
(* cannot come or whose notification is gone.                              *)
(***************************************************************************)
THEOREM WaiterIsNeverForgotten == Spec => []WaiterIsServed
<1>1. Inv => WaiterIsServed
  BY DEF Inv, WaitOK, LockOK, WaiterIsServed
<1>2. QED
  BY <1>1, SpecInv, PTL

(***************************************************************************)
(* requestUpdateAndWait answers Rendered only when what was changed under  *)
(* the lock has been drawn.                                                *)
(***************************************************************************)
THEOREM RenderedIsTrue == Spec => RenderedShowsTheChange
<1>1. Inv /\ [Next]_vars => [Rendered => screen # "stale"]_vars
  BY DEF Rendered, Inv, ScreenOK
<1>2. QED
  BY <1>1, SpecInv, PTL DEF Spec, RenderedShowsTheChange

(***************************************************************************)
(* A result goes to the handler registered for the child that returns it,  *)
(* and a child that was started for a result finds its parent waiting.     *)
(***************************************************************************)
THEOREM ResultsAreDelivered == Spec => []ResultsFindTheirParent
BY SpecScreens, ScreensInvWorks, PTL

(***************************************************************************)
(* Exactly the activities on the screen or below it have been entered and  *)
(* not exited.                                                             *)
(***************************************************************************)
THEOREM EveryEntryIsExited == Spec => []AliveOnScreen
<1>1. ScreensInv => AliveOnScreen
  BY DEF ScreensInv
<1>2. QED
  BY <1>1, SpecScreens, PTL
=============================================================================
