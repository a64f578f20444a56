----------------------------- MODULE CallsProofs -----------------------------
(***************************************************************************)
(* Theorems about Calls, for any set of methods, any number of items and   *)
(* any depth of nesting.  Two inductive invariants: one of the iterations  *)
(* (Iterations), one of the messages (Messages).                           *)
(***************************************************************************)
EXTENDS Calls, SequenceTheorems, TLAPS

-----------------------------------------------------------------------------
(* Stacks.                                                                  *)

(* Of a stack of frames that is not empty: its top is a frame, it can be    *)
(* replaced or removed, and everything below stays as it is.                *)
LEMMA TopOfStack ==
  ASSUME stack \in Seq(Frame), stack # <<>>
  PROVE  /\ Len(stack) \in Nat \ {0}
         /\ Top \in Frame
         /\ Pop \in Seq(Frame)
         /\ Len(Pop) = Len(stack) - 1
         /\ \A d \in 1 .. Len(Pop) : Pop[d] = stack[d]
<1> DEFINE n == Len(stack)
<1>1. n \in Nat \ {0}
  BY EmptySeq
<1>2. \A d \in 1 .. n : stack[d] \in Frame
  BY ElementOfSeq
<1>3. /\ SubSeq(stack, 1, n - 1) \in Seq(Frame)
      /\ Len(SubSeq(stack, 1, n - 1)) = n - 1
      /\ \A d \in 1 .. n - 1 : SubSeq(stack, 1, n - 1)[d] = stack[d]
  <2>1. \A d \in 1 .. n - 1 : stack[d] \in Frame
    BY <1>1, <1>2
  <2> HIDE DEF n
  <2> QED
    BY <1>1, <2>1, SubSeqProperties
<1> QED
  BY <1>1, <1>2, <1>3 DEF Top, Pop

LEMMA ReplacedTop ==
  ASSUME stack \in Seq(Frame), stack # <<>>, NEW f \in Frame
  PROVE  /\ SetTop(f) \in Seq(Frame)
         /\ Len(SetTop(f)) = Len(stack)
         /\ SetTop(f)[Len(stack)] = f
         /\ \A d \in 1 .. Len(stack) : d # Len(stack) => SetTop(f)[d] = stack[d]
  BY DEF SetTop

(* One more item shown, or one more answer, makes a frame of a frame.       *)
LEMMA OneMoreItem ==
  ASSUME NEW t \in Frame, t.shown < Count
  PROVE  /\ [t EXCEPT !.shown = @ + 1, !.asking = TRUE] \in Frame
         /\ [t EXCEPT !.shown = @ + 1] \in Frame
<1>1. Count \in Nat
  BY CallsAssumption DEF CallsAssumption
<1>2. t.shown + 1 \in 0 .. Count
  BY <1>1 DEF Frame
<1> QED
  BY <1>2 DEF Frame

LEMMA OneMoreAnswer ==
  ASSUME NEW t \in Frame, NEW told \in Seq(BOOLEAN)
  PROVE  [t EXCEPT !.told = told, !.asking = FALSE] \in Frame
  BY DEF Frame

(* The answers of the callback, with one more.                              *)
LEMMA OneMoreVerdict ==
  ASSUME NEW told \in Seq(BOOLEAN), NEW keep \in BOOLEAN
  PROVE  /\ Append(told, keep) \in Seq(BOOLEAN)
         /\ Len(Append(told, keep)) = Len(told) + 1
         /\ Stops(told) = {} /\ keep => Stops(Append(told, keep)) = {}
         /\ Stops(told) = {} /\ ~keep => Stops(Append(told, keep)) = {Len(told) + 1}
  BY DEF Stops

-----------------------------------------------------------------------------
(* Type correctness.                                                        *)

LEMMA LeaveType ==
  ASSUME TypeOK, stack # <<>>, NEW told \in Seq(BOOLEAN),
         NEW ret \in {"true", "false", "void", "raised"}, Leave(told, ret)
  PROVE  stack' \in Seq(Frame) /\ ended' \in Ended
  BY TopOfStack DEF TypeOK, Leave, Ended, Frame

LEMMA RaiseType ==
  ASSUME TypeOK, NEW m \in Nat \cup {None}, Raise(m)
  PROVE  slot' \in Nat \cup {None} /\ thrown' \subseteq [call : Nat, msg : Nat \cup {None}]
  BY DEF TypeOK, Raise

LEMMA TypeStep == TypeOK /\ [Next]_vars => TypeOK'
<1> SUFFICES ASSUME TypeOK, [Next]_vars PROVE TypeOK'
  OBVIOUS
<1>1. ASSUME NEW fn \in Function, CallAsserted(fn) PROVE TypeOK'
  BY <1>1, RaiseType DEF CallAsserted, Fails, Report, TypeOK
<1>2. ASSUME NEW fn \in Function, CallTolerated(fn) PROVE TypeOK'
  BY <1>2 DEF CallTolerated, Fails, Report, TypeOK
<1>3. ASSUME NEW fn \in Function, Enter(fn) PROVE TypeOK'
  <2> DEFINE f == [fn |-> fn, shown |-> 0, told |-> <<>>, asking |-> FALSE]
  <2>1. f \in Frame
    BY <1>3, CallsAssumption DEF Enter, Frame, CallsAssumption
  <2> QED
    BY <1>3, <2>1 DEF Enter, TypeOK
<1>4. CASE Ask
  <2> DEFINE f == [Top EXCEPT !.shown = @ + 1, !.asking = TRUE]
  <2>1. stack # <<>> /\ Top \in Frame
    BY <1>4, TopOfStack DEF Ask, LibraryRuns, TypeOK
  <2>2. f \in Frame
    BY <1>4, <2>1, OneMoreItem DEF Ask
  <2>3. SetTop(f) \in Seq(Frame)
    BY <2>1, <2>2, ReplacedTop DEF TypeOK
  <2> QED
    BY <1>4, <2>3 DEF Ask, TypeOK
<1>5. ASSUME NEW keep \in BOOLEAN, Answer(keep) PROVE TypeOK'
  <2> DEFINE told == Append(Top.told, keep)
             code == Code(Top.fn, keep)
             f == [Top EXCEPT !.told = told, !.asking = FALSE]
  <2>1. stack # <<>> /\ Top \in Frame
    BY <1>5, TopOfStack DEF Answer, TypeOK
  <2>2. told \in Seq(BOOLEAN) /\ f \in Frame
    <3>1. Top.told \in Seq(BOOLEAN)
      BY <2>1 DEF Frame
    <3>2. told \in Seq(BOOLEAN)
      BY <3>1, OneMoreVerdict
    <3> QED
      BY <2>1, <3>2, OneMoreAnswer
  <2>3. CASE code = "OK"
    <3>1. SetTop(f) \in Seq(Frame)
      BY <2>1, <2>2, ReplacedTop DEF TypeOK
    <3> QED
      BY <1>5, <2>3, <3>1 DEF Answer, TypeOK
  <2>4. CASE code # "OK"
    <3>1. Stop(told, code) /\ UNCHANGED tolerated
      BY <1>5, <2>4 DEF Answer
    <3>2. Result(Top.fn, code) \in {"true", "false", "void", "raised"}
      BY DEF Result
    <3>3. stack' \in Seq(Frame) /\ ended' \in Ended
      BY <2>1, <2>2, <3>1, <3>2, LeaveType DEF Stop
    <3>4. /\ failures' \in Nat /\ slot' \in Nat \cup {None}
          /\ thrown' \subseteq [call : Nat, msg : Nat \cup {None}]
      <4>1. CASE Result(Top.fn, code) = "raised"
        <5>1. Fails /\ (\E m \in Nat \cup {None} : Raise(m))
          BY <3>1, <4>1 DEF Stop, TypeOK
        <5> QED
          BY <5>1, RaiseType DEF Fails, TypeOK
      <4>2. CASE Result(Top.fn, code) # "raised"
        BY <3>1, <4>2 DEF Stop, TypeOK
      <4> QED
        BY <4>1, <4>2
    <3> QED
      BY <3>1, <3>3, <3>4 DEF TypeOK
  <2> QED
    BY <2>3, <2>4
<1>6. CASE AskNobody
  <2> DEFINE f == [Top EXCEPT !.shown = @ + 1]
  <2>1. stack # <<>> /\ Top \in Frame
    BY <1>6, TopOfStack DEF AskNobody, LibraryRuns, TypeOK
  <2>2. f \in Frame /\ Top.told \in Seq(BOOLEAN)
    BY <1>6, <2>1, OneMoreItem DEF AskNobody, Frame
  <2>3. SetTop(f) \in Seq(Frame)
    BY <2>1, <2>2, ReplacedTop DEF TypeOK
  <2>4. Result(Top.fn, "EUSER") \in {"true", "false", "void", "raised"}
    BY DEF Result
  <2>5. stack' \in Seq(Frame) /\ ended' \in Ended \cup {None} /\ slot' \in Nat \cup {None}
    BY <1>6, <2>1, <2>2, <2>3, <2>4, LeaveType DEF AskNobody, TypeOK
  <2> QED
    BY <1>6, <2>5 DEF AskNobody, TypeOK
<1>7. CASE Exhaust
  <2>1. stack # <<>> /\ Top.told \in Seq(BOOLEAN)
    BY <1>7, TopOfStack DEF Exhaust, LibraryRuns, TypeOK, Frame
  <2>2. Result(Top.fn, "OK") \in {"true", "false", "void", "raised"}
    BY DEF Result
  <2> QED
    BY <1>7, <2>1, <2>2, LeaveType DEF Exhaust, TypeOK
<1>8. CASE Break
  <2>1. stack # <<>> /\ Top.told \in Seq(BOOLEAN)
    BY <1>8, TopOfStack DEF Break, LibraryRuns, TypeOK, Frame
  <2>2. stack' \in Seq(Frame) /\ ended' \in Ended
    BY <1>8, <2>1, LeaveType DEF Break
  <2> QED
    BY <1>8, <2>2, RaiseType DEF Break, Fails, Report, TypeOK
<1>9. CASE Unwind
  <2>1. stack # <<>> /\ Top.told \in Seq(BOOLEAN)
    BY <1>9, TopOfStack DEF Unwind, TypeOK, Frame
  <2> QED
    BY <1>9, <2>1, LeaveType DEF Unwind, TypeOK
<1>10. CASE UNCHANGED vars
  BY <1>10 DEF vars, TypeOK
<1> QED
  BY <1>1, <1>2, <1>3, <1>4, <1>5, <1>6, <1>7, <1>8, <1>9, <1>10 DEF Next

LEMMA TypeInit == Init => TypeOK
  BY DEF Init, TypeOK

(* Every reachable state is a state of the model.                           *)
THEOREM CallsTypeCorrect == Spec => []TypeOK
  BY TypeInit, TypeStep, PTL DEF Spec-----------------------------------------------------------------------------
(* Messages.                                                                *)

\* What is pending was tolerated, and is newer than what was thrown.
Messages ==
  /\ tolerated \subseteq 1 .. failures
  /\ slot # None => slot \in tolerated
  /\ \A e \in thrown :
       /\ e.call \in 1 .. failures
       /\ e.msg # None => e.msg <= e.call
       /\ e.msg # None /\ slot # None => e.msg < slot
  /\ MessageOrigin
  /\ MessageOrder

LEMMA MessagesInit == Init => Messages
  BY DEF Init, Messages, MessageOrigin, MessageOrder

(* Throwing the message just set, or the pending one, keeps the order.      *)
LEMMA RaiseMessages ==
  ASSUME TypeOK, Messages, Fails, NEW m \in {failures + 1, slot, None}, Raise(m),
         UNCHANGED tolerated
  PROVE  Messages'
<1> DEFINE e == [call |-> failures + 1, msg |-> m]
<1>1. /\ failures \in Nat /\ failures' = failures + 1
      /\ thrown' = thrown \cup {e} /\ slot' = None /\ tolerated' = tolerated
      /\ tolerated \subseteq 1 .. failures
  BY DEF TypeOK, Fails, Raise, Messages
<1>2. None \notin Nat
  BY CallsAssumption DEF CallsAssumption
<1>3. m # None => m <= failures + 1 /\ (m = failures + 1 \/ m \in tolerated)
  BY <1>1 DEF Messages
<1>4. \A x \in thrown : /\ x.call \in 1 .. failures
                        /\ x.msg # None => x.msg \in Nat /\ x.msg <= failures
                        /\ x.msg # None /\ m # None => x.msg < m
  BY <1>1, <1>2 DEF Messages, TypeOK
<1>5. MessageOrigin'
  BY <1>1, <1>3 DEF Messages, MessageOrigin
<1>6. MessageOrder'
  BY <1>1, <1>4 DEF Messages, MessageOrder
<1>7. \A x \in thrown' : x.call \in 1 .. failures' /\ (x.msg # None => x.msg <= x.call)
  BY <1>1, <1>3, <1>4 DEF Messages
<1> QED
  BY <1>1, <1>5, <1>6, <1>7 DEF Messages

(* A message that stays pending, or is cleared, changes nothing.            *)
LEMMA KeepMessages ==
  ASSUME Messages, slot' \in {slot, None}, UNCHANGED <<failures, tolerated, thrown>>
  PROVE  Messages'
  BY DEF Messages, MessageOrigin, MessageOrder

LEMMA MessagesStep == TypeOK /\ Messages /\ [Next]_vars => Messages'
<1> SUFFICES ASSUME TypeOK, Messages, [Next]_vars PROVE Messages'
  OBVIOUS
<1>1. ASSUME NEW fn \in Function, CallAsserted(fn) PROVE Messages'
  BY <1>1, RaiseMessages DEF CallAsserted, Report
<1>2. ASSUME NEW fn \in Function, CallTolerated(fn) PROVE Messages'
  <2>1. /\ failures \in Nat /\ failures' = failures + 1 /\ thrown' = thrown
        /\ tolerated' = tolerated \cup {failures + 1}
        /\ slot' \in {failures + 1, slot, None}
    BY <1>2 DEF CallTolerated, Fails, Report, TypeOK
  <2>2. tolerated' \subseteq 1 .. failures' /\ (slot' # None => slot' \in tolerated')
    BY <2>1 DEF Messages
  <2>3. \A x \in thrown : /\ x.call \in 1 .. failures'
                          /\ x.msg # None => x.msg <= x.call
                          /\ x.msg # None /\ slot' # None => x.msg < slot'
    <3>1. \A x \in thrown : x.msg # None => x.msg \in Nat
      BY DEF TypeOK
    <3> QED
      BY <2>1, <3>1 DEF Messages
  <2>4. MessageOrigin' /\ MessageOrder'
    BY <2>1 DEF Messages, MessageOrigin, MessageOrder
  <2> QED
    BY <2>1, <2>2, <2>3, <2>4 DEF Messages
<1>3. ASSUME NEW fn \in Function, Enter(fn) PROVE Messages'
  BY <1>3, KeepMessages DEF Enter
<1>4. CASE Ask
  BY <1>4, KeepMessages DEF Ask
<1>5. ASSUME NEW keep \in BOOLEAN, Answer(keep) PROVE Messages'
  <2> DEFINE told == Append(Top.told, keep)
             code == Code(Top.fn, keep)
  <2>1. CASE code = "OK"
    BY <1>5, <2>1, KeepMessages DEF Answer
  <2>2. CASE code # "OK" /\ Result(Top.fn, code) = "raised"
    <3>1. Fails /\ (\E m \in {slot, None} : Raise(m)) /\ UNCHANGED tolerated
      BY <1>5, <2>2 DEF Answer, Stop
    <3> QED
      BY <3>1, RaiseMessages
  <2>3. CASE code # "OK" /\ Result(Top.fn, code) # "raised"
    <3>1. slot' \in {slot, None} /\ UNCHANGED <<failures, tolerated, thrown>>
      BY <1>5, <2>3 DEF Answer, Stop
    <3> QED
      BY <3>1, KeepMessages
  <2> QED
    BY <2>1, <2>2, <2>3
<1>6. CASE AskNobody
  BY <1>6, KeepMessages DEF AskNobody
<1>7. CASE Exhaust
  BY <1>7, KeepMessages DEF Exhaust
<1>8. CASE Break
  BY <1>8, RaiseMessages DEF Break, Report
<1>9. CASE Unwind
  BY <1>9, KeepMessages DEF Unwind
<1>10. CASE UNCHANGED vars
  BY <1>10, KeepMessages DEF vars
<1> QED
  BY <1>1, <1>2, <1>3, <1>4, <1>5, <1>6, <1>7, <1>8, <1>9, <1>10 DEF Next

LEMMA MessagesAlways == Spec => []Messages
<1>1. Init => TypeOK /\ Messages
  BY TypeInit, MessagesInit
<1>2. TypeOK /\ Messages /\ [Next]_vars => TypeOK' /\ Messages'
  BY TypeStep, MessagesStep
<1> QED
  BY <1>1, <1>2, PTL DEF Spec

(* An exception never repeats the message of an earlier exception: what it  *)
(* carries is its own or was left by a failure that was tolerated.          *)
THEOREM MessagesHaveAnOrigin == Spec => []MessageOrigin
<1>1. Messages => MessageOrigin
  BY DEF Messages
<1> QED
  BY <1>1, MessagesAlways, PTL

(* The messages of the exceptions come in the order of the failures.        *)
THEOREM MessagesInOrder == Spec => []MessageOrder
<1>1. Messages => MessageOrder
  BY DEF Messages
<1> QED
  BY <1>1, MessagesAlways, PTL
-----------------------------------------------------------------------------
(* Iterations.                                                              *)

\* A conforming iteration under way was never asked to stop, and its client
\* has answered for every item shown but the one it looks at.
Faithful(f) ==
  f.fn \in Conforming =>
    Stops(f.told) = {} /\ f.shown = Len(f.told) + (IF f.asking THEN 1 ELSE 0)

\* what a conforming iteration may end with
Sound(told, ret) ==
  /\ Stops(told) \subseteq {Len(told)}
  /\ ret \in {"true", "void"} => Len(told) = Count /\ Stops(told) = {}
  /\ ret = "false" => Stops(told) # {}

Iterations ==
  /\ \A d \in 1 .. Len(stack) : Faithful(stack[d])
  /\ ended # None /\ ended.fn \in Conforming => Sound(ended.told, ended.ret)

LEMMA IterationsInit == Init => Iterations
  BY DEF Init, Iterations

LEMMA LeaveSoundly ==
  ASSUME TypeOK, Iterations, stack # <<>>, NEW told, NEW ret, Leave(told, ret),
         Top.fn \in Conforming => Sound(told, ret)
  PROVE  Iterations'
<1>1. /\ Len(Pop) \in Nat /\ Len(Pop) < Len(stack)
      /\ \A d \in 1 .. Len(Pop) : Pop[d] = stack[d]
  BY TopOfStack DEF TypeOK
<1>2. stack' = Pop /\ ended' = [fn |-> Top.fn, told |-> told, ret |-> ret]
  BY DEF Leave
<1>3. \A d \in 1 .. Len(stack') : Faithful(stack'[d])
  <2>1. SUFFICES ASSUME NEW d \in 1 .. Len(Pop) PROVE Faithful(Pop[d])
    BY <1>2
  <2>2. d \in 1 .. Len(stack) /\ Pop[d] = stack[d]
    BY <1>1, TopOfStack DEF TypeOK
  <2> QED
    BY <2>2 DEF Iterations
<1> QED
  BY <1>2, <1>3 DEF Iterations

LEMMA AdvanceFaithfully ==
  ASSUME TypeOK, Iterations, stack # <<>>, NEW f \in Frame, Faithful(f),
         stack' = SetTop(f), UNCHANGED ended
  PROVE  Iterations'
<1>1. /\ Len(SetTop(f)) = Len(stack) /\ SetTop(f)[Len(stack)] = f
      /\ \A d \in 1 .. Len(stack) : d # Len(stack) => SetTop(f)[d] = stack[d]
  BY ReplacedTop DEF TypeOK
<1>2. \A d \in 1 .. Len(stack) : Faithful(SetTop(f)[d])
  <2> SUFFICES ASSUME NEW d \in 1 .. Len(stack) PROVE Faithful(SetTop(f)[d])
    OBVIOUS
  <2>1. CASE d = Len(stack)
    BY <1>1, <2>1
  <2>2. CASE d # Len(stack)
    BY <1>1, <2>2 DEF Iterations
  <2> QED
    BY <2>1, <2>2
<1> QED
  BY <1>1, <1>2 DEF Iterations

LEMMA TopIsFaithful ==
  ASSUME TypeOK, Iterations, stack # <<>>
  PROVE  Top \in Frame /\ Faithful(Top)
<1>1. Len(stack) \in 1 .. Len(stack)
  BY TopOfStack DEF TypeOK
<1> QED
  BY <1>1, TopOfStack DEF TypeOK, Iterations, Top

LEMMA IterationsStep == TypeOK /\ Iterations /\ [Next]_vars => Iterations'
<1> SUFFICES ASSUME TypeOK, Iterations, [Next]_vars PROVE Iterations'
  OBVIOUS
<1>0. ASSUME UNCHANGED <<stack, ended>> PROVE Iterations'
  BY <1>0 DEF Iterations
<1>1. ASSUME NEW fn \in Function, CallAsserted(fn) PROVE Iterations'
  BY <1>0, <1>1 DEF CallAsserted
<1>2. ASSUME NEW fn \in Function, CallTolerated(fn) PROVE Iterations'
  BY <1>0, <1>2 DEF CallTolerated
<1>3. ASSUME NEW fn \in Function, Enter(fn) PROVE Iterations'
  <2> DEFINE f == [fn |-> fn, shown |-> 0, told |-> <<>>, asking |-> FALSE]
  <2>1. stack' = Append(stack, f) /\ ended' = ended
    BY <1>3 DEF Enter
  <2>2. Faithful(f)
    BY DEF Faithful, Stops
  <2> HIDE DEF f
  <2>3. \A d \in 1 .. Len(Append(stack, f)) : Faithful(Append(stack, f)[d])
    <3> SUFFICES ASSUME NEW d \in 1 .. Len(Append(stack, f))
                 PROVE  Faithful(Append(stack, f)[d])
      OBVIOUS
    <3>1. Append(stack, f)[d] = IF d = Len(stack) + 1 THEN f ELSE stack[d]
      BY DEF TypeOK
    <3>2. d # Len(stack) + 1 => d \in 1 .. Len(stack)
      BY DEF TypeOK
    <3> QED
      BY <2>2, <3>1, <3>2 DEF Iterations
  <2> QED
    BY <2>1, <2>3 DEF Iterations
<1>4. CASE Ask
  <2> DEFINE f == [Top EXCEPT !.shown = @ + 1, !.asking = TRUE]
  <2>1. stack # <<>> /\ ~Top.asking /\ Top.shown < Count /\ stack' = SetTop(f) /\ ended' = ended
    BY <1>4 DEF Ask, LibraryRuns
  <2>2. Top \in Frame /\ Faithful(Top)
    BY <2>1, TopIsFaithful
  <2>3. f \in Frame
    BY <2>1, <2>2, OneMoreItem
  <2>4. Faithful(f)
    BY <2>1, <2>2 DEF Faithful, Frame
  <2> QED
    BY <2>1, <2>3, <2>4, AdvanceFaithfully
<1>5. ASSUME NEW keep \in BOOLEAN, Answer(keep) PROVE Iterations'
  <2> DEFINE told == Append(Top.told, keep)
             code == Code(Top.fn, keep)
             f == [Top EXCEPT !.told = told, !.asking = FALSE]
  <2>1. stack # <<>> /\ Top.asking
    BY <1>5 DEF Answer
  <2>2. Top \in Frame /\ Faithful(Top)
    BY <2>1, TopIsFaithful
  <2>3. Top.told \in Seq(BOOLEAN)
    BY <2>2 DEF Frame
  <2>4. /\ told \in Seq(BOOLEAN)
        /\ Len(told) = Len(Top.told) + 1
        /\ Stops(Top.told) = {} /\ keep => Stops(told) = {}
        /\ Stops(Top.told) = {} /\ ~keep => Stops(told) = {Len(told)}
    BY <2>3, OneMoreVerdict
  <2>5. Top.fn \in Conforming => (code = "OK" <=> keep)
    BY DEF Code, Conforming
  <2> HIDE DEF told
  <2>6. CASE code = "OK"
    <3>1. stack' = SetTop(f) /\ ended' = ended
      BY <1>5, <2>6 DEF Answer, told
    <3>2. f \in Frame
      BY <2>2, <2>4, OneMoreAnswer
    <3>3. Faithful(f)
      BY <2>1, <2>2, <2>4, <2>5, <2>6 DEF Faithful, Frame
    <3> QED
      BY <2>1, <3>1, <3>2, <3>3, AdvanceFaithfully
  <2>7. CASE code # "OK"
    <3>1. Leave(told, Result(Top.fn, code))
      BY <1>5, <2>7 DEF Answer, Stop, told
    <3>2. Top.fn \in Conforming => Sound(told, Result(Top.fn, code))
      <4>1. SUFFICES ASSUME Top.fn \in Conforming PROVE Sound(told, Result(Top.fn, code))
        OBVIOUS
      <4>2. Stops(told) = {Len(told)}
        BY <2>2, <2>4, <2>5, <2>7, <4>1 DEF Faithful
      <4>3. Result(Top.fn, code) \in {"false", "raised"}
        BY <2>7, <4>1 DEF Result, Conforming, Keeping, Notifying, Naming
      <4> QED
        BY <4>2, <4>3 DEF Sound
    <3> QED
      BY <2>1, <3>1, <3>2, LeaveSoundly
  <2> QED
    BY <2>6, <2>7
<1>6. CASE AskNobody
  <2> DEFINE f == [Top EXCEPT !.shown = @ + 1]
  <2>1. stack # <<>> /\ Top.shown < Count /\ Top.fn \notin Conforming
    BY <1>6 DEF AskNobody, LibraryRuns, Misdirected, Conforming, Keeping, Notifying
  <2>2. Top \in Frame
    BY <2>1, TopIsFaithful
  <2>3. CASE stack' = SetTop(f) /\ ended' = ended
    <3>1. f \in Frame /\ f.fn = Top.fn
      BY <2>1, <2>2, OneMoreItem DEF Frame
    <3>2. Faithful(f)
      BY <2>1, <3>1 DEF Faithful
    <3> QED
      BY <2>1, <2>3, <3>1, <3>2, AdvanceFaithfully
  <2>4. CASE Leave(Top.told, Result(Top.fn, "EUSER"))
    BY <2>1, <2>4, LeaveSoundly
  <2>5. CASE Leave(Top.told, "raised")
    BY <2>1, <2>5, LeaveSoundly
  <2> QED
    BY <1>6, <2>3, <2>4, <2>5 DEF AskNobody
<1>7. CASE Exhaust
  <2>1. stack # <<>> /\ ~Top.asking /\ Top.shown = Count /\ Leave(Top.told, Result(Top.fn, "OK"))
    BY <1>7 DEF Exhaust, LibraryRuns
  <2>2. Top.fn \in Conforming => Sound(Top.told, Result(Top.fn, "OK"))
    <3>1. SUFFICES ASSUME Top.fn \in Conforming PROVE Sound(Top.told, Result(Top.fn, "OK"))
      OBVIOUS
    <3>2. Stops(Top.told) = {} /\ Len(Top.told) = Count
      BY <2>1, <3>1, TopIsFaithful DEF Faithful, Frame
    <3>3. Result(Top.fn, "OK") \in {"true", "void"}
      BY <3>1 DEF Result, Conforming, Keeping, Notifying, Naming
    <3> QED
      BY <3>2, <3>3 DEF Sound
  <2> QED
    BY <2>1, <2>2, LeaveSoundly
<1>8. ASSUME stack # <<>>, Leave(Top.told, "raised") PROVE Iterations'
  <2>1. Top.fn \in Conforming => Sound(Top.told, "raised")
    BY <1>8, TopIsFaithful DEF Faithful, Sound
  <2> QED
    BY <1>8, <2>1, LeaveSoundly
<1>9. CASE Break
  BY <1>8, <1>9 DEF Break, LibraryRuns
<1>10. CASE Unwind
  BY <1>8, <1>10 DEF Unwind
<1>11. CASE UNCHANGED vars
  BY <1>0, <1>11 DEF vars
<1> QED
  BY <1>1, <1>2, <1>3, <1>4, <1>5, <1>6, <1>7, <1>9, <1>10, <1>11 DEF Next

LEMMA IterationsAlways == Spec => [](TypeOK /\ Iterations)
<1>1. Init => TypeOK /\ Iterations
  BY TypeInit, IterationsInit
<1>2. TypeOK /\ Iterations /\ [Next]_vars => TypeOK' /\ Iterations'
  BY TypeStep, IterationsStep
<1> QED
  BY <1>1, <1>2, PTL DEF Spec

(* A callback that returns false is not called again, at any depth of       *)
(* nested iterations, by the iterations listed in Conforming.               *)
THEOREM FalseStopsTheIteration == Spec => []StopIsFinal
<1>1. TypeOK /\ Iterations => StopIsFinal
  <2> SUFFICES ASSUME TypeOK, Iterations PROVE StopIsFinal
    OBVIOUS
  <2>1. DOMAIN stack = 1 .. Len(stack)
    BY DEF TypeOK
  <2> QED
    BY <2>1 DEF Iterations, Faithful, Sound, StopIsFinal, StopIsFinalFor
<1> QED
  BY <1>1, IterationsAlways, PTL

(* What a conforming iteration returns says what happened: complete when    *)
(* every item was shown and wanted, stopped when the client said so.        *)
THEOREM ReturnsAreHonest == Spec => []HonestReturn
<1>1. Iterations => HonestReturn
  <2> SUFFICES ASSUME Iterations, ended # None, ended.fn \in Conforming
               PROVE  /\ SaysComplete(ended.fn, ended.ret) =>
                           Len(ended.told) = Count /\ Stops(ended.told) = {}
                      /\ SaysStopped(ended.fn, ended.ret) => Stops(ended.told) # {}
    BY DEF HonestReturn, HonestReturnFor
  <2>1. ended.fn \notin Naming
    BY DEF Conforming, Keeping, Notifying, Naming
  <2> QED
    BY <2>1 DEF Iterations, Sound, SaysComplete, SaysStopped
<1> QED
  BY <1>1, IterationsAlways, PTL
=============================================================================
