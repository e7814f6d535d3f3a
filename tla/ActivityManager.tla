-------------------------- MODULE ActivityManager --------------------------
(***************************************************************************)
(* The screens of the reader and the two tasks that share them             *)
(* (src/activities/ActivityManager.cpp).                                   *)
(*                                                                         *)
(* The main task runs the current activity's code and carries out the      *)
(* push, pop or replacement it asked for; the render task draws whatever   *)
(* activity is current when it is notified.  A mutex, taken through        *)
(* RenderLock, keeps them apart, task notifications wake them.             *)
(* requestUpdateAndWait blocks the main task until a drawing is done.      *)
(* The tasks interleave freely: they have one priority and, on an S3, a    *)
(* core each.  A section under the lock that nobody can look into is one   *)
(* step.                                                                   *)
(***************************************************************************)
EXTENDS Naturals, Sequences

CONSTANTS
  Activities,  \* the activity objects there can be
  None,        \* no activity
  MaxDepth,    \* bound: activities below the current one
  MaxChain     \* bound: navigations by onEnter and handlers in one loop()

ASSUME NoneAssumption == None \notin Activities
ASSUME BoundsAssumption == MaxDepth \in Nat /\ MaxChain \in Nat

VARIABLES
  current,     \* currentActivity
  stack,       \* stackActivities
  pending,     \* pendingAction and pendingActivity
  handler,     \* of each activity, the child its resultHandler waits for
  asked,       \* history: activities started by startActivityForResult
  alive,       \* activities entered and not exited
  main,        \* where the main task is
  code,        \* the activity code it runs: loop, enter or result
  chain,       \* navigations by onEnter and handlers in this loop()
  alert,       \* APP_STATE.hasPendingAlert
  requested,   \* requestedUpdate
  lock,        \* holder of renderingMutex
  notified,    \* the render task's notification count is not zero
  waiter,      \* waitingTaskHandle is set (to the main task, the only caller)
  woken,       \* the main task's notification count is not zero
  painter,     \* where the render task is
  drawing,     \* the activity it draws
  screen       \* how the last drawing relates to what it should show: fresh,
               \* stale, or raced when changed outside the lock since

nav   == <<current, stack, pending, handler, asked, alive>>
task  == <<main, code, chain, alert, requested>>
sync  == <<lock, notified, waiter, woken>>
paint == <<painter, drawing, screen>>
vars  == <<nav, task, sync, paint>>

Nothing == [action |-> "none", activity |-> None]

Init ==
  /\ current = None /\ stack = <<>> /\ pending = Nothing
  /\ handler = [a \in Activities |-> None] /\ asked = {} /\ alive = {}
  /\ main = "launch" /\ code = "loop" /\ chain = 0
  /\ alert = FALSE /\ requested = FALSE
  /\ lock = "none" /\ notified = FALSE /\ waiter = FALSE /\ woken = FALSE
  /\ painter = "wait" /\ drawing = None /\ screen = "stale"

-----------------------------------------------------------------------------
(***************************************************************************)
(* A new object may reuse the memory of one that is gone.                  *)
(***************************************************************************)
Below == {stack[i] : i \in 1..Len(stack)}

New == Activities \ ({current} \cup Below)

(***************************************************************************)
(* Where the main task goes when activity code returns.                    *)
(***************************************************************************)
After == IF code = "result" THEN "resume" ELSE "pending"

(***************************************************************************)
(* What is to be shown changes, under the lock or not.                     *)
(***************************************************************************)
Changed == IF screen = "raced" THEN "raced" ELSE "stale"

-----------------------------------------------------------------------------
(***************************************************************************)
(* Requests for navigation.  A push or pop drops an activity that is still *)
(* pending, a replacement overwrites it.                                   *)
(***************************************************************************)
Push(a, forResult) ==
  /\ Len(stack) < MaxDepth /\ a \in New
  /\ pending' = [action |-> "push", activity |-> a]
  /\ asked' = IF forResult THEN asked \cup {a} ELSE asked \ {a}
  /\ handler' = IF forResult THEN [handler EXCEPT ![current] = a] ELSE handler

Pop ==
  /\ pending' = [action |-> "pop", activity |-> None]
  /\ UNCHANGED <<asked, handler>>

Replace(a) ==
  /\ a \in New
  /\ pending' = [action |-> "replace", activity |-> a]
  /\ asked' = asked \ {a}
  /\ UNCHANGED handler

(***************************************************************************)
(* main.cpp between two loops: a power button action opens a screen, the   *)
(* sleep screen among them.                                                *)
(***************************************************************************)
GlobalAction(a) ==
  /\ main = "idle" /\ current # None
  /\ Push(a, FALSE) \/ Replace(a)
  /\ main' = "ready"
  /\ UNCHANGED <<current, stack, alive, code, chain, alert, requested, sync, paint>>

(***************************************************************************)
(* loop(): the frontlight gesture pushes its panel and returns at once,    *)
(* else the activity's own code runs.                                      *)
(***************************************************************************)
LightPanelGesture(a) ==
  /\ main \in {"idle", "ready"}
  /\ Push(a, FALSE)
  /\ main' = "idle"
  /\ UNCHANGED <<current, stack, alive, code, chain, alert, requested, sync, paint>>

LoopActivity ==
  /\ main \in {"idle", "ready"}
  /\ main' = "code" /\ code' = "loop" /\ chain' = 0
  /\ UNCHANGED <<nav, alert, requested, sync, paint>>

-----------------------------------------------------------------------------
(***************************************************************************)
(* Activity code may change what it shows, under a RenderLock, request an  *)
(* update and then navigate or return.                                     *)
(***************************************************************************)
TakeLock ==
  /\ main = "code" /\ lock = "none"
  /\ lock' = "main" /\ screen' = Changed
  /\ main' = "holding"
  /\ UNCHANGED <<nav, code, chain, alert, requested, notified, waiter, woken, painter, drawing>>

Unlock ==
  /\ main = "holding"
  /\ lock' = "none" /\ main' = "request"
  /\ UNCHANGED <<nav, code, chain, alert, requested, notified, waiter, woken, paint>>

RequestUpdate ==
  /\ main = "request"
  /\ requested' = TRUE /\ main' = "last"
  /\ UNCHANGED <<nav, code, chain, alert, sync, paint>>

RequestUpdateNow ==
  /\ main = "request"
  /\ notified' = TRUE /\ main' = "last"
  /\ UNCHANGED <<nav, code, chain, alert, requested, lock, waiter, woken, paint>>

MayWaitAlways == ~waiter

(***************************************************************************)
(* requestUpdateAndWait: in one critical section it refuses a caller that  *)
(* holds the lock, or a second one, and registers the waiter.  A refused   *)
(* caller asks for a plain update.                                         *)
(***************************************************************************)
MayWait == ~waiter /\ lock # "main"

Wait ==
  /\ main \in {"holding", "request"} /\ MayWait
  /\ waiter' = TRUE /\ main' = "kick"
  /\ UNCHANGED <<nav, code, chain, alert, requested, lock, notified, woken, paint>>

Rejected ==
  /\ main \in {"holding", "request"} /\ ~MayWait
  /\ lock' = "none" /\ requested' = TRUE /\ main' = "last"
  /\ UNCHANGED <<nav, code, chain, alert, notified, waiter, woken, paint>>

Kick ==
  /\ main = "kick"
  /\ notified' = TRUE /\ main' = "waiting"
  /\ UNCHANGED <<nav, code, chain, alert, requested, lock, waiter, woken, paint>>

Rendered ==
  /\ main = "waiting" /\ woken
  /\ woken' = FALSE /\ main' = "last"
  /\ UNCHANGED <<nav, code, chain, alert, requested, lock, notified, waiter, paint>>

Navigate ==
  /\ main \in {"code", "last"}
  /\ \/ \E a \in Activities : \/ \E forResult \in BOOLEAN : Push(a, forResult)
                              \/ Replace(a)
     \/ Pop
  /\ IF code = "loop" THEN UNCHANGED chain ELSE chain < MaxChain /\ chain' = chain + 1
  /\ main' = After
  /\ UNCHANGED <<current, stack, alive, code, alert, requested, sync, paint>>

Return ==
  /\ main \in {"code", "last"}
  /\ main' = After
  /\ UNCHANGED <<nav, code, chain, alert, requested, sync, paint>>

(***************************************************************************)
(* Code of either task that fails raises an alert.                         *)
(***************************************************************************)
RaiseAlert ==
  /\ main \in {"code", "last"} \/ painter = "drawing"
  /\ ~alert /\ alert' = TRUE
  /\ UNCHANGED <<nav, main, code, chain, requested, sync, paint>>

-----------------------------------------------------------------------------
(***************************************************************************)
(* The pending action, under the lock: exitActivity runs onExit and        *)
(* destroys the activity.  The screen is then that of another one.         *)
(***************************************************************************)
ExclusiveNever == TRUE

Exclusive == lock = "none"

Last == stack[Len(stack)]

PopTop ==
  /\ main = "pending" /\ pending.action = "pop" /\ Exclusive
  /\ pending' = Nothing /\ alive' = alive \ {current}
  /\ IF stack = <<>>
     THEN /\ current' = None /\ main' = "launch"
          /\ UNCHANGED <<stack, handler, asked, code, requested>>
     ELSE /\ current' = Last /\ stack' = SubSeq(stack, 1, Len(stack) - 1)
          /\ asked' = asked \ {current}
          /\ handler' = [handler EXCEPT ![Last] = None]
          /\ IF handler[Last] # None
             THEN main' = "code" /\ code' = "result" /\ UNCHANGED requested
             ELSE main' = "pending" /\ requested' = TRUE /\ UNCHANGED code
  /\ screen' = Changed
  /\ UNCHANGED <<chain, alert, sync, painter, drawing>>

ResumeForgetting ==
  /\ main = "resume"
  /\ requested' = (requested \/ pending = Nothing)
  /\ handler' = [handler EXCEPT ![current] = None]
  /\ main' = "pending"
  /\ UNCHANGED <<current, stack, pending, asked, alive, code, chain, alert, sync, paint>>

(***************************************************************************)
(* After a result handler the parent is redrawn, unless it navigates.      *)
(***************************************************************************)
Resume ==
  /\ main = "resume"
  /\ requested' = (requested \/ pending = Nothing)
  /\ main' = "pending"
  /\ UNCHANGED <<nav, code, chain, alert, sync, paint>>

PushPending ==
  /\ main = "pending" /\ pending.action = "push" /\ Exclusive
  /\ stack' = Append(stack, current)
  /\ current' = pending.activity /\ pending' = Nothing
  /\ screen' = Changed /\ main' = "enter"
  /\ UNCHANGED <<handler, asked, alive, code, chain, alert, requested, sync, painter, drawing>>

ExitCurrentOnly == alive \ {current}

ExitAll == alive \ ({current} \cup Below)

ReplacePending ==
  /\ main = "pending" /\ pending.action = "replace" /\ Exclusive
  /\ alive' = ExitAll
  /\ stack' = <<>> /\ current' = pending.activity /\ pending' = Nothing
  /\ handler' = [a \in Activities |-> None]
  /\ asked' = {}
  /\ screen' = Changed /\ main' = "enter"
  /\ UNCHANGED <<code, chain, alert, requested, sync, painter, drawing>>

(***************************************************************************)
(* replaceActivity with no current activity, at boot and in goHome after   *)
(* the last pop: at once, and without the lock.                            *)
(***************************************************************************)
Launch(a) ==
  /\ main = "launch"
  /\ current' = a /\ asked' = asked \ {a}
  /\ handler' = [handler EXCEPT ![a] = None]
  /\ screen' = "raced" /\ main' = "enter"
  /\ UNCHANGED <<stack, pending, alive, code, chain, alert, requested, sync, painter, drawing>>

(***************************************************************************)
(* onEnter sets up what render() reads, as AlertActivity does without the  *)
(* lock, and requests the first drawing.                                   *)
(***************************************************************************)
Enter ==
  /\ main = "enter"
  /\ alive' = alive \cup {current} /\ code' = "enter"
  /\ \/ screen' = "raced" /\ main' = "request" /\ UNCHANGED lock
     \/ lock = "none" /\ lock' = "main" /\ screen' = Changed /\ main' = "holding"
  /\ UNCHANGED <<current, stack, pending, handler, asked, chain, alert, requested,
                 notified, waiter, woken, painter, drawing>>

(***************************************************************************)
(* The end of loop(): an alert is pushed, to be entered by the next one,   *)
(* and a requested update is passed on.  A stack at its bound lets alerts  *)
(* wait.                                                                   *)
(***************************************************************************)
ShowAlert ==
  /\ main = "pending" /\ pending = Nothing
  /\ \/ alert /\ alert' = FALSE /\ \E a \in Activities : Push(a, FALSE)
     \/ (alert => Len(stack) = MaxDepth) /\ UNCHANGED <<alert, pending, asked, handler>>
  /\ main' = "flush"
  /\ UNCHANGED <<current, stack, alive, code, chain, requested, sync, paint>>

FlushWhenFree ==
  /\ main = "flush"
  /\ notified' = (notified \/ (requested /\ painter = "wait")) /\ requested' = FALSE
  /\ main' = "idle"
  /\ UNCHANGED <<nav, code, chain, alert, lock, waiter, woken, paint>>

Flush ==
  /\ main = "flush"
  /\ notified' = (notified \/ requested) /\ requested' = FALSE
  /\ main' = "idle"
  /\ UNCHANGED <<nav, code, chain, alert, lock, waiter, woken, paint>>

-----------------------------------------------------------------------------
(***************************************************************************)
(* renderTaskLoop.  ulTaskNotifyTake clears the whole count.               *)
(***************************************************************************)
TakeNotification ==
  /\ painter = "wait" /\ notified
  /\ notified' = FALSE /\ painter' = "lock"
  /\ UNCHANGED <<nav, task, lock, waiter, woken, drawing, screen>>

StartDrawing ==
  /\ painter = "lock" /\ lock = "none"
  /\ lock' = "render" /\ drawing' = current /\ painter' = "drawing"
  /\ screen' = IF current = None THEN screen ELSE "fresh"
  /\ UNCHANGED <<nav, task, notified, waiter, woken>>

(* render() itself may ask for another drawing.                            *)
DrawAgain ==
  /\ painter = "drawing"
  /\ requested' = TRUE
  /\ UNCHANGED <<nav, main, code, chain, alert, sync, paint>>

AnswerUnlocked ==
  /\ painter = "drawing"
  /\ painter' = "answer" /\ lock' = "none" /\ drawing' = None
  /\ UNCHANGED <<nav, task, notified, waiter, woken, screen>>

FinishDrawing ==
  /\ painter = "drawing"
  /\ painter' = "answer"
  /\ UNCHANGED <<nav, task, sync, drawing, screen>>

(* The waiter is notified while the lock is still held.                    *)
Answer ==
  /\ painter = "answer"
  /\ waiter' = FALSE /\ woken' = (woken \/ waiter)
  /\ painter' = "release"
  /\ UNCHANGED <<nav, task, lock, notified, drawing, screen>>

(* ~RenderLock gives back what it still holds.                             *)
Release ==
  /\ painter = "release"
  /\ lock' = (IF lock = "render" THEN "none" ELSE lock)
  /\ drawing' = None /\ painter' = "wait"
  /\ UNCHANGED <<nav, task, notified, waiter, woken, screen>>

-----------------------------------------------------------------------------
Running ==
  \/ TakeLock \/ Unlock \/ RequestUpdate \/ RequestUpdateNow
  \/ Wait \/ Rejected \/ Kick \/ Rendered
  \/ Navigate \/ Return
  \/ PopTop \/ Resume \/ PushPending \/ ReplacePending
  \/ \E a \in Activities : Launch(a)
  \/ Enter \/ ShowAlert \/ Flush

Painting ==
  TakeNotification \/ StartDrawing \/ FinishDrawing \/ Answer \/ Release

User ==
  \/ \E a \in Activities : GlobalAction(a) \/ LightPanelGesture(a)
  \/ RaiseAlert \/ DrawAgain

Next == Running \/ LoopActivity \/ Painting \/ User

Spec == Init /\ [][Next]_vars

(***************************************************************************)
(* Both tasks are scheduled; a task that waits for the lock gets it in the *)
(* end, and the frontlight gesture is not made in every loop.              *)
(***************************************************************************)
FairSpec ==
  /\ Spec
  /\ WF_vars(Running) /\ SF_vars(LoopActivity)
  /\ WF_vars(Painting) /\ SF_vars(StartDrawing)
  /\ SF_vars(PopTop \/ PushPending \/ ReplacePending)

-----------------------------------------------------------------------------
Places == {"launch", "enter", "idle", "ready", "code", "holding", "request",
           "kick", "waiting", "last", "resume", "pending", "flush"}

TypeOK ==
  /\ current \in Activities \cup {None}
  /\ stack \in Seq(Activities) /\ Len(stack) <= MaxDepth
  /\ pending \in [action : {"none", "push", "pop", "replace"},
                  activity : Activities \cup {None}]
  /\ handler \in [Activities -> Activities \cup {None}]
  /\ asked \subseteq Activities /\ alive \subseteq Activities
  /\ main \in Places /\ code \in {"loop", "enter", "result"}
  /\ chain \in 0..MaxChain
  /\ alert \in BOOLEAN /\ requested \in BOOLEAN
  /\ lock \in {"none", "main", "render"}
  /\ notified \in BOOLEAN /\ waiter \in BOOLEAN /\ woken \in BOOLEAN
  /\ painter \in {"wait", "lock", "drawing", "answer", "release"}
  /\ drawing \in Activities \cup {None}
  /\ screen \in {"fresh", "stale", "raced"}

(***************************************************************************)
(* The activity being drawn is the current one and stays it until the      *)
(* drawing is over: it is not deleted between the null check and render(). *)
(***************************************************************************)
DrawsTheCurrent == drawing # None => drawing = current

(***************************************************************************)
(* A pending push or replacement has its activity and nothing else has     *)
(* one: the loop over pending actions, which only ends when there is none, *)
(* never meets one it cannot carry out.                                    *)
(***************************************************************************)
PendingIsComplete ==
  /\ pending.action \in {"push", "replace"} <=> pending.activity # None
  /\ pending.action = "pop" => current # None

(***************************************************************************)
(* The handler that an activity registered for a child runs when that very *)
(* child is popped, and no child's result is lost: along the stack a       *)
(* parent waits exactly for the child above it that it asked for.          *)
(***************************************************************************)
Screens == IF current = None THEN stack ELSE Append(stack, current)

ResultsFindTheirParent ==
  /\ \A i \in 1..Len(stack) : i < Len(Screens) =>
       handler[Screens[i]] = IF Screens[i + 1] \in asked THEN Screens[i + 1] ELSE None
  /\ pending.action = "push" /\ pending.activity \in asked =>
       handler[current] = pending.activity

(***************************************************************************)
(* Every activity on the stack was entered and not exited, and nobody else *)
(* is: the last thing each of them runs is its own onExit.                 *)
(***************************************************************************)
AliveOnScreen ==
  alive = (Below \cup {current}) \ (IF main = "enter" THEN {current} ELSE {None})

(***************************************************************************)
(* "Trigger a render and block until it completes": when                   *)
(* requestUpdateAndWait answers Rendered, a change made under the lock is  *)
(* on the screen, whichever notification the render task was serving.      *)
(***************************************************************************)
RenderedShowsTheChange == [][Rendered => screen # "stale"]_vars

(***************************************************************************)
(* A task blocked in requestUpdateAndWait is sure to be woken: it holds no *)
(* lock that the drawing needs, and either has its notification already or *)
(* is registered with a drawing that is under way or yet to be taken up.   *)
(***************************************************************************)
WaiterIsServed ==
  main = "waiting" =>
    /\ lock # "main"
    /\ woken \/ (waiter /\ (notified \/ painter \in {"lock", "drawing", "answer"}))

(***************************************************************************)
(* What the current activity has to show is drawn in the end, unless       *)
(* another activity takes its place: no notification is lost.              *)
(***************************************************************************)
ChangesAreDrawn ==
  \A a \in Activities :
    current = a /\ screen # "fresh" ~> screen = "fresh" \/ current # a

=============================================================================
