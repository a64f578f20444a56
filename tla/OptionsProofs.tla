----------------------------- MODULE OptionsProofs -----------------------------
(***************************************************************************)
(* The invariants of Options, for every number of addresses and reports    *)
(* and every depth of nested calls.  The arrays and the lists are accounts *)
(* of their own over the same stack, and a call does one of three things   *)
(* to the stack: push, pop, or change its top.  To be inductive the        *)
(* account of the lists needs what the model does not say: two calls never *)
(* build the same list, the list of a diff exists unless a notification    *)
(* was made for it, and one was made while its callback runs.              *)
(***************************************************************************)
EXTENDS Options, SequenceTheorems, TLAPS

ArrayInv == lost \subseteq arrays /\ ArraysWithTheirCalls

ListsApart ==
  \A d, e \in DOMAIN stack :
    d # e /\ stack[d].list # None => stack[d].list # stack[e].list

ListsUnderWay ==
  \A d \in DOMAIN stack : stack[d].fn \in Diffing =>
    /\ stack[d].list \in Addr
    /\ stack[d].list \in lists \cup notified
    /\ stack[d].asking => stack[d].list \in notified

ListInv == OnlyNotifiedListsFail /\ ListsApart /\ ListsUnderWay

OptionsInv == TypeOK /\ ArrayInv /\ ListInv

-----------------------------------------------------------------------------
(* The stack.                                                               *)

(* The call on top.                                                         *)
LEMMA TopFacts ==
  ASSUME stack \in Seq(Call), stack # <<>>
  PROVE  /\ Len(stack) \in DOMAIN stack /\ Top = stack[Len(stack)] /\ Top \in Call
         /\ DOMAIN stack = 1 .. Len(stack) /\ Len(stack) \in Nat
<1>1. Len(stack) \in Nat \ {0} /\ DOMAIN stack = 1 .. Len(stack)
  BY EmptySeq
<1>2. Len(stack) \in 1 .. Len(stack)
  BY <1>1
<1> QED BY <1>1, <1>2, ElementOfSeq DEF Top

(* Entering a call leaves those under way where they are.                   *)
LEMMA PushFacts ==
  ASSUME stack \in Seq(Call), NEW c \in Call, stack' = Append(stack, c)
  PROVE  /\ stack' \in Seq(Call)
         /\ \E t : /\ DOMAIN stack' = DOMAIN stack \cup {t} /\ t \notin DOMAIN stack
                   /\ stack'[t] = c
         /\ \A d \in DOMAIN stack : stack'[d] = stack[d]
<1> DEFINE t == Len(stack) + 1
<1>1. Len(stack) \in Nat /\ DOMAIN stack = 1 .. Len(stack)
  OBVIOUS
<1>2. DOMAIN stack' = 1 .. t
  OBVIOUS
<1>3. 1 .. t = (1 .. Len(stack)) \cup {t} /\ t \notin 1 .. Len(stack)
  BY <1>1
<1>4. stack'[t] = c /\ stack' \in Seq(Call)
  OBVIOUS
<1>5. \A d \in DOMAIN stack : stack'[d] = stack[d]
  BY <1>1
<1> HIDE DEF t
<1> QED BY <1>1, <1>2, <1>3, <1>4, <1>5

(* Leaving one removes the top and leaves the others where they are.        *)
LEMMA PopFacts ==
  ASSUME stack \in Seq(Call), stack # <<>>, stack' = Pop
  PROVE  /\ stack' \in Seq(Call)
         /\ DOMAIN stack' = DOMAIN stack \ {Len(stack)}
         /\ \A d \in DOMAIN stack' : stack'[d] = stack[d]
<1>1. Len(stack) \in Nat \ {0} /\ DOMAIN stack = 1 .. Len(stack)
  BY EmptySeq
<1>2. /\ stack' \in Seq(Call) /\ Len(stack') = Len(stack) - 1
      /\ \A d \in 1 .. (Len(stack) - 1) : stack'[d] = stack[d]
  BY <1>1, SubSeqProperties DEF Pop
<1>3. DOMAIN stack' = 1 .. (Len(stack) - 1)
  BY <1>2
<1> QED BY <1>1, <1>2, <1>3

(* Changing the top changes nothing else.                                   *)
LEMMA SetFacts ==
  ASSUME stack \in Seq(Call), stack # <<>>, NEW c \in Call, stack' = SetTop(c)
  PROVE  /\ stack' \in Seq(Call)
         /\ DOMAIN stack' = DOMAIN stack
         /\ \A d \in DOMAIN stack : stack'[d] = IF d = Len(stack) THEN c ELSE stack[d]
<1>1. Len(stack) \in DOMAIN stack
  BY TopFacts
<1> QED BY <1>1 DEF SetTop

-----------------------------------------------------------------------------
(* The account of the arrays.                                               *)

LEMMA PushKeepsArrays ==
  ASSUME TypeOK, ArrayInv, NEW c \in Call, stack' = Append(stack, c),
         arrays' = arrays \cup ({c.array} \ {None}), lost' = lost,
         c.array # None =>
           c.array \notin arrays /\ \A d \in DOMAIN stack : c.array # stack[d].array
  PROVE  ArrayInv'
<1>1. PICK t : /\ DOMAIN stack' = DOMAIN stack \cup {t} /\ t \notin DOMAIN stack
               /\ stack'[t] = c
  BY PushFacts DEF TypeOK
<1>2. \A d \in DOMAIN stack : stack'[d] = stack[d]
  BY PushFacts DEF TypeOK
<1>3. {stack'[d].array : d \in DOMAIN stack'} = {stack[d].array : d \in DOMAIN stack} \cup {c.array}
  BY <1>1, <1>2
<1>4. arrays \ lost = {stack[d].array : d \in DOMAIN stack} \ {None} /\ lost \subseteq arrays
  BY DEF ArrayInv, ArraysWithTheirCalls, ArrayOf
<1>5. arrays' \ lost' = {stack'[d].array : d \in DOMAIN stack'} \ {None}
  BY <1>3, <1>4
<1>6. \A d, e \in DOMAIN stack' :
        d # e /\ stack'[d].array # None => stack'[d].array # stack'[e].array
  BY <1>1, <1>2 DEF ArrayInv, ArraysWithTheirCalls, ArrayOf
<1> QED BY <1>4, <1>5, <1>6 DEF ArrayInv, ArraysWithTheirCalls, ArrayOf

(* The array of the call that is left is freed, or lost.                    *)
LEMMA PopKeepsArrays ==
  ASSUME TypeOK, ArrayInv, stack # <<>>, stack' = Pop,
         \/ arrays' = arrays \ {Top.array} /\ lost' = lost
         \/ arrays' = arrays /\ lost' = lost \cup ({Top.array} \ {None})
  PROVE  ArrayInv'
<1> DEFINE t == Len(stack)
<1>1. t \in DOMAIN stack /\ Top = stack[t]
  BY TopFacts DEF TypeOK
<1>2. DOMAIN stack' = DOMAIN stack \ {t} /\ \A d \in DOMAIN stack' : stack'[d] = stack[d]
  BY PopFacts DEF TypeOK
<1> HIDE DEF t
<1>3. arrays \ lost = {stack[d].array : d \in DOMAIN stack} \ {None} /\ lost \subseteq arrays
  BY DEF ArrayInv, ArraysWithTheirCalls, ArrayOf
<1>4. \A d, e \in DOMAIN stack :
        d # e /\ stack[d].array # None => stack[d].array # stack[e].array
  BY DEF ArrayInv, ArraysWithTheirCalls, ArrayOf
<1>5. {stack'[d].array : d \in DOMAIN stack'} \ {None}
        = ({stack[d].array : d \in DOMAIN stack} \ {None}) \ {Top.array}
  BY <1>1, <1>2, <1>4
<1>6. Top.array # None => Top.array \in arrays \ lost
  BY <1>1, <1>3
<1>7. None \notin arrays
  BY OptionsAssumption DEF TypeOK
<1>8. arrays' \ lost' = (arrays \ lost) \ {Top.array} /\ lost' \subseteq arrays'
  BY <1>3, <1>6, <1>7
<1>9. arrays' \ lost' = {stack'[d].array : d \in DOMAIN stack'} \ {None}
  BY <1>3, <1>5, <1>8
<1>10. \A d, e \in DOMAIN stack' :
         d # e /\ stack'[d].array # None => stack'[d].array # stack'[e].array
  BY <1>2, <1>4
<1> QED BY <1>8, <1>9, <1>10 DEF ArrayInv, ArraysWithTheirCalls, ArrayOf

LEMMA SetKeepsArrays ==
  ASSUME TypeOK, ArrayInv, stack # <<>>, NEW c \in Call, stack' = SetTop(c),
         c.array = Top.array, arrays' = arrays, lost' = lost
  PROVE  ArrayInv'
<1>1. DOMAIN stack' = DOMAIN stack /\ \A d \in DOMAIN stack : stack'[d].array = stack[d].array
  BY SetFacts, TopFacts DEF TypeOK
<1> QED BY <1>1 DEF ArrayInv, ArraysWithTheirCalls, ArrayOf

(* A call that had no array gets one that is fresh.                         *)
LEMMA ObtainKeepsArrays ==
  ASSUME TypeOK, ArrayInv, stack # <<>>, NEW c \in Call, stack' = SetTop(c),
         Top.array = None, c.array # None, c.array \notin arrays,
         \A d \in DOMAIN stack : c.array # stack[d].array,
         arrays' = arrays \cup {c.array}, lost' = lost
  PROVE  ArrayInv'
<1> DEFINE t == Len(stack)
<1>1. t \in DOMAIN stack /\ stack[t].array = None
  BY TopFacts DEF TypeOK
<1>2. /\ DOMAIN stack' = DOMAIN stack
      /\ \A d \in DOMAIN stack : stack'[d] = IF d = t THEN c ELSE stack[d]
  BY SetFacts DEF TypeOK
<1> HIDE DEF t
<1>3. arrays \ lost = {stack[d].array : d \in DOMAIN stack} \ {None} /\ lost \subseteq arrays
  BY DEF ArrayInv, ArraysWithTheirCalls, ArrayOf
<1>4. {stack'[d].array : d \in DOMAIN stack'} \ {None}
        = ({stack[d].array : d \in DOMAIN stack} \ {None}) \cup {c.array}
  BY <1>1, <1>2
<1>5. arrays' \ lost' = {stack'[d].array : d \in DOMAIN stack'} \ {None} /\ lost' \subseteq arrays'
  BY <1>3, <1>4
<1>6. \A d, e \in DOMAIN stack' :
        d # e /\ stack'[d].array # None => stack'[d].array # stack'[e].array
  BY <1>1, <1>2 DEF ArrayInv, ArraysWithTheirCalls, ArrayOf
<1> QED BY <1>5, <1>6 DEF ArrayInv, ArraysWithTheirCalls, ArrayOf

-----------------------------------------------------------------------------
(* The account of the lists.                                                *)

LEMMA PushKeepsLists ==
  ASSUME TypeOK, ListInv, NEW c \in Call, stack' = Append(stack, c),
         ~c.asking, UNCHANGED <<held, fault>>,
         \/ c.fn \notin Diffing /\ c.list = None /\ UNCHANGED <<lists, notified>>
         \/ /\ c.list \in Addr \ (lists \cup held \cup fault)
            /\ \A d \in DOMAIN stack : c.list # stack[d].list
            /\ lists' = lists \cup {c.list}
            /\ notified' = notified \ {c.list}
  PROVE  ListInv'
<1>1. PICK t : /\ DOMAIN stack' = DOMAIN stack \cup {t} /\ t \notin DOMAIN stack
               /\ stack'[t] = c
  BY PushFacts DEF TypeOK
<1>2. \A d \in DOMAIN stack : stack'[d] = stack[d]
  BY PushFacts DEF TypeOK
<1>3. OnlyNotifiedListsFail'
  BY <1>1, <1>2 DEF ListInv, OnlyNotifiedListsFail
<1>4. ListsApart'
  BY <1>1, <1>2 DEF ListInv, ListsApart
<1>5. ListsUnderWay'
  BY <1>1, <1>2 DEF ListInv, ListsUnderWay
<1> QED BY <1>3, <1>4, <1>5 DEF ListInv

(* A call that is left frees its list, or hands it to the client, who had   *)
(* not got it; a notification may have been made just before.               *)
LEMMA PopKeepsLists ==
  ASSUME TypeOK, ListInv, stack # <<>>, stack' = Pop,
         notified \subseteq notified',
         \/ /\ Top.fn \notin Diffing /\ UNCHANGED <<lists, held, fault>>
         \/ /\ Top.fn \in Diffing /\ FreeList(Top.list) /\ UNCHANGED held
         \/ /\ Top.fn \in Diffing /\ held' = held \cup {Top.list} /\ UNCHANGED <<lists, fault>>
         \/ /\ Top.fn \in Diffing /\ Top.list \in notified' /\ lists' = lists \ {Top.list}
            /\ fault' \subseteq fault \cup {Top.list} /\ UNCHANGED held
         \/ /\ Top.fn \in Diffing /\ UNCHANGED <<lists, held, fault>>
  PROVE  ListInv'
<1> DEFINE t == Len(stack)
<1>1. t \in DOMAIN stack /\ Top = stack[t]
  BY TopFacts DEF TypeOK
<1>2. DOMAIN stack' = DOMAIN stack \ {t} /\ \A d \in DOMAIN stack' : stack'[d] = stack[d]
  BY PopFacts DEF TypeOK
<1> HIDE DEF t
<1>3. /\ fault \subseteq notified /\ held \subseteq lists \cup notified
      /\ \A d \in DOMAIN stack : stack[d].list # None => stack[d].list \notin held
  BY DEF ListInv, OnlyNotifiedListsFail
<1>4. \A d, e \in DOMAIN stack : d # e /\ stack[d].list # None => stack[d].list # stack[e].list
  BY DEF ListInv, ListsApart
<1>5. \A d \in DOMAIN stack : stack[d].fn \in Diffing =>
        /\ stack[d].list \in Addr /\ stack[d].list # None
        /\ stack[d].list \in lists \cup notified
        /\ stack[d].asking => stack[d].list \in notified
  BY OptionsAssumption DEF ListInv, ListsUnderWay
<1>6. ListsApart'
  BY <1>2, <1>4 DEF ListsApart
<1>7. ListsUnderWay'
  BY <1>1, <1>2, <1>4, <1>5 DEF ListsUnderWay, FreeList
<1>8. OnlyNotifiedListsFail'
  BY <1>1, <1>2, <1>3, <1>4, <1>5 DEF OnlyNotifiedListsFail, FreeList
<1> QED BY <1>6, <1>7, <1>8 DEF ListInv

(* The callback of the call on top begins or ends.                          *)
LEMMA SetKeepsLists ==
  ASSUME TypeOK, ListInv, stack # <<>>, NEW c \in Call, stack' = SetTop(c),
         c.fn = Top.fn, c.list = Top.list, UNCHANGED held,
         notified' \in {notified, notified \cup {Top.list}},
         c.fn \in Diffing /\ c.asking => c.list \in notified',
         \/ UNCHANGED <<lists, fault>>
         \/ /\ Top.fn \in Diffing /\ Top.asking
            /\ lists' = lists \ {Top.list} /\ fault' = fault \cup {Top.list}
  PROVE  ListInv'
<1> DEFINE t == Len(stack)
<1>1. t \in DOMAIN stack /\ Top = stack[t]
  BY TopFacts DEF TypeOK
<1>2. /\ DOMAIN stack' = DOMAIN stack
      /\ \A d \in DOMAIN stack : stack'[d] = IF d = t THEN c ELSE stack[d]
  BY SetFacts DEF TypeOK
<1> HIDE DEF t
<1>3. /\ fault \subseteq notified /\ held \subseteq lists \cup notified
      /\ \A d \in DOMAIN stack : stack[d].list # None => stack[d].list \notin held
  BY DEF ListInv, OnlyNotifiedListsFail
<1>4. \A d, e \in DOMAIN stack : d # e /\ stack[d].list # None => stack[d].list # stack[e].list
  BY DEF ListInv, ListsApart
<1>5. \A d \in DOMAIN stack : stack[d].fn \in Diffing =>
        /\ stack[d].list \in Addr /\ stack[d].list # None
        /\ stack[d].list \in lists \cup notified
        /\ stack[d].asking => stack[d].list \in notified
  BY OptionsAssumption DEF ListInv, ListsUnderWay
<1>6. ListsApart'
  BY <1>1, <1>2, <1>4 DEF ListsApart
<1>7. ListsUnderWay'
  BY <1>1, <1>2, <1>4, <1>5 DEF ListsUnderWay
<1>8. OnlyNotifiedListsFail'
  BY <1>1, <1>2, <1>3, <1>5 DEF OnlyNotifiedListsFail
<1> QED BY <1>6, <1>7, <1>8 DEF ListInv

-----------------------------------------------------------------------------
(* The actions.                                                             *)

(* Types, but for the stack: what is freed, lost or handed out is an        *)
(* address.                                                                 *)
LEMMA RestTypes ==
  ASSUME TypeOK, stack' \in Seq(Call),
         arrays' \subseteq Addr, lists' \subseteq Addr, held' \subseteq Addr,
         lost' \subseteq Addr, notified' \subseteq Addr, fault' \subseteq Addr
  PROVE  TypeOK'
  BY DEF TypeOK

(* The call on top, and its list if it is a diff.                           *)
LEMMA TopTypes ==
  ASSUME OptionsInv, stack # <<>>
  PROVE  /\ Top \in Call /\ Top.array \in Addr \cup {None}
         /\ Top.fn \in Diffing => Top.list \in Addr
<1>1. Top \in Call /\ Top = stack[Len(stack)] /\ Len(stack) \in DOMAIN stack
  BY TopFacts DEF OptionsInv, TypeOK
<1> QED BY <1>1 DEF Call, OptionsInv, ListInv, ListsUnderWay

LEMMA InitInv == Init => OptionsInv
<1> SUFFICES ASSUME Init PROVE OptionsInv
  OBVIOUS
<1>1. TypeOK
  BY DEF Init, TypeOK
<1>2. DOMAIN stack = {}
  BY DEF Init
<1>3. ArrayInv /\ ListInv
  BY <1>2 DEF Init, ArrayInv, ArraysWithTheirCalls, ListInv, OnlyNotifiedListsFail, ListsApart,
     ListsUnderWay
<1> QED BY <1>1, <1>3 DEF OptionsInv

LEMMA EnterInv == OptionsInv /\ Enter => OptionsInv'
<1> SUFFICES ASSUME OptionsInv, Enter PROVE OptionsInv'
  OBVIOUS
<1> USE OptionsAssumption
<1>0. TypeOK /\ ArrayInv /\ ListInv /\ UNCHANGED <<held, lost, fault>>
  BY DEF OptionsInv, Enter
<1>1. ASSUME NEW fn \in Function, EnterFetching(fn) PROVE OptionsInv'
  <2> DEFINE c == [fn |-> fn, array |-> None, list |-> None,
                   given |-> FALSE, done |-> 0, asking |-> FALSE]
  <2>1. c \in Call /\ c.array = None /\ c.list = None /\ c.asking = FALSE /\ c.fn = fn
    BY DEF Call, Method
  <2>2. stack' = Append(stack, c) /\ fn \notin Diffing
    BY <1>1 DEF EnterFetching, Fetching, Diffing
  <2> HIDE DEF c
  <2>3. UNCHANGED <<arrays, lists, notified>>
    BY <1>1 DEF EnterFetching
  <2>4. ArrayInv'
    BY <1>0, <2>1, <2>2, <2>3, PushKeepsArrays
  <2>5. ListInv'
    BY <1>0, <2>1, <2>2, <2>3, PushKeepsLists
  <2>6. TypeOK'
    BY <1>0, <2>1, <2>2, <2>3, PushFacts DEF TypeOK
  <2> QED BY <2>4, <2>5, <2>6 DEF OptionsInv
<1>2. ASSUME NEW fn \in Function, NEW a \in Addr, NEW given \in BOOLEAN,
             EnterFilling(fn, a, given)
      PROVE  OptionsInv'
  <2> DEFINE c == [fn |-> fn, array |-> a, list |-> None,
                   given |-> given, done |-> 0, asking |-> FALSE]
  <2>1. c \in Call /\ c.array = a /\ c.list = None /\ c.asking = FALSE /\ c.fn = fn
    BY DEF Call, Method
  <2>2. stack' = Append(stack, c) /\ fn \notin Diffing
    BY <1>2 DEF EnterFilling, Filling, Checking, Showing, Silent, Diffing
  <2> HIDE DEF c
  <2>3. arrays' = arrays \cup {a} /\ UNCHANGED <<lists, notified>>
    BY <1>2 DEF EnterFilling
  <2>4. a # None /\ a \notin arrays /\ \A d \in DOMAIN stack : a # stack[d].array
    BY <1>2 DEF EnterFilling, Fresh
  <2>5. ArrayInv'
    BY <1>0, <2>1, <2>2, <2>3, <2>4, PushKeepsArrays
  <2>6. ListInv'
    BY <1>0, <2>1, <2>2, <2>3, PushKeepsLists
  <2>7. TypeOK'
    BY <1>0, <2>1, <2>2, <2>3, PushFacts DEF TypeOK
  <2> QED BY <2>5, <2>6, <2>7 DEF OptionsInv
<1>3. ASSUME NEW fn \in Function, NEW a \in Addr \cup {None}, NEW l \in Addr,
             NEW given \in BOOLEAN, EnterDiffing(fn, a, l, given)
      PROVE  OptionsInv'
  <2> DEFINE c == [fn |-> fn, array |-> a, list |-> l,
                   given |-> given, done |-> 0, asking |-> FALSE]
  <2>1. c \in Call /\ c.array = a /\ c.list = l /\ c.asking = FALSE /\ c.fn = fn
    BY DEF Call, Method
  <2>2. stack' = Append(stack, c)
    BY <1>3 DEF EnterDiffing
  <2> HIDE DEF c
  <2>3. /\ arrays' = arrays \cup ({a} \ {None}) /\ lists' = lists \cup {l}
        /\ notified' = notified \ {l}
    BY <1>3 DEF EnterDiffing
  <2>4. a # None => a \notin arrays /\ \A d \in DOMAIN stack : a # stack[d].array
    BY <1>3 DEF EnterDiffing, Fresh
  <2>5. l \in Addr \ (lists \cup held \cup fault) /\ \A d \in DOMAIN stack : l # stack[d].list
    BY <1>3 DEF EnterDiffing, Fresh
  <2>6. ArrayInv'
    BY <1>0, <2>1, <2>2, <2>3, <2>4, PushKeepsArrays
  <2>7. ListInv'
    BY <1>0, <2>1, <2>2, <2>3, <2>5, PushKeepsLists
  <2>8. TypeOK'
    BY <1>0, <2>1, <2>2, <2>3, PushFacts DEF TypeOK
  <2> QED BY <2>6, <2>7, <2>8 DEF OptionsInv
<1> QED BY <1>1, <1>2, <1>3 DEF Enter

LEMMA FailsInv == OptionsInv /\ Fails => OptionsInv'
<1> SUFFICES ASSUME OptionsInv, Fails PROVE OptionsInv'
  OBVIOUS
<1>1. /\ TypeOK /\ ArrayInv /\ ListInv /\ stack # <<>> /\ stack' = Pop
      /\ arrays' = arrays \ {Top.array} /\ UNCHANGED <<held, lost, notified>>
  BY DEF OptionsInv, Fails, LibraryRuns, FreeArray
<1>2. ArrayInv'
  BY <1>1, PopKeepsArrays
<1>3. ListInv'
  BY <1>1, PopKeepsLists DEF Fails
<1>4. TypeOK'
  BY <1>1, PopFacts, TopTypes DEF TypeOK, Fails, FreeList
<1> QED BY <1>2, <1>3, <1>4 DEF OptionsInv

LEMMA FinishInv == OptionsInv /\ Finish => OptionsInv'
<1> SUFFICES ASSUME OptionsInv, Finish PROVE OptionsInv'
  OBVIOUS
<1>1. /\ TypeOK /\ ArrayInv /\ ListInv /\ stack # <<>> /\ stack' = Pop
      /\ arrays' = arrays \ {Top.array} /\ UNCHANGED <<lists, lost, notified, fault>>
  BY DEF OptionsInv, Finish, LibraryRuns, FreeArray
<1>2. ArrayInv'
  BY <1>1, PopKeepsArrays
<1>3. ListInv'
  BY <1>1, PopKeepsLists DEF Finish
<1>4. TypeOK'
  BY <1>1, PopFacts, TopTypes DEF TypeOK, Finish
<1> QED BY <1>2, <1>3, <1>4 DEF OptionsInv

LEMMA ObtainInv == ASSUME NEW a \in Addr PROVE OptionsInv /\ Obtain(a) => OptionsInv'
<1> SUFFICES ASSUME OptionsInv, Obtain(a) PROVE OptionsInv'
  OBVIOUS
<1> USE OptionsAssumption
<1> DEFINE c == [Top EXCEPT !.array = a]
<1>1. /\ TypeOK /\ ArrayInv /\ ListInv /\ stack # <<>> /\ stack' = SetTop(c)
      /\ arrays' = arrays \cup {a} /\ UNCHANGED <<lists, held, lost, notified, fault>>
      /\ Top.array = None /\ ~Top.asking
      /\ a \notin arrays /\ \A d \in DOMAIN stack : a # stack[d].array
  BY DEF OptionsInv, Obtain, LibraryRuns, Fresh
<1>2. c \in Call /\ c.array = a /\ c.fn = Top.fn /\ c.list = Top.list /\ c.asking = Top.asking
  BY <1>1, TopTypes DEF Call
<1> HIDE DEF c
<1>3. ArrayInv'
  BY <1>1, <1>2, ObtainKeepsArrays
<1>4. ListInv'
  BY <1>1, <1>2, SetKeepsLists
<1>5. TypeOK'
  BY <1>1, <1>2, SetFacts DEF TypeOK
<1> QED BY <1>3, <1>4, <1>5 DEF OptionsInv

LEMMA ReleaseInv == ASSUME NEW l \in Addr PROVE OptionsInv /\ Release(l) => OptionsInv'
<1> SUFFICES ASSUME OptionsInv, Release(l) PROVE OptionsInv'
  OBVIOUS
<1>1. /\ l \in held /\ held' = held \ {l} /\ lists' = lists \ {l}
      /\ fault' = (IF l \in lists THEN fault ELSE fault \cup {l})
      /\ UNCHANGED <<stack, arrays, lost, notified>>
  BY DEF Release, FreeList
<1>2. TypeOK'
  BY <1>1 DEF OptionsInv, TypeOK
<1>3. ArrayInv'
  BY <1>1 DEF OptionsInv, ArrayInv, ArraysWithTheirCalls, ArrayOf
<1>4. OnlyNotifiedListsFail'
  BY <1>1 DEF OptionsInv, ListInv, OnlyNotifiedListsFail
<1>5. ListsApart'
  BY <1>1 DEF OptionsInv, ListInv, ListsApart
<1>6. ListsUnderWay'
  BY <1>1, OptionsAssumption DEF OptionsInv, ListInv, ListsUnderWay, OnlyNotifiedListsFail
<1> QED BY <1>2, <1>3, <1>4, <1>5, <1>6 DEF OptionsInv, ListInv

LEMMA AskInv == OptionsInv /\ Ask => OptionsInv'
<1> SUFFICES ASSUME OptionsInv, Ask PROVE OptionsInv'
  OBVIOUS
<1> DEFINE c == [Top EXCEPT !.done = @ + 1, !.asking = TRUE]
<1>1. /\ TypeOK /\ ArrayInv /\ ListInv /\ stack # <<>> /\ stack' = SetTop(c)
      /\ UNCHANGED <<arrays, lists, held, lost, fault>> /\ Top.done < Items
      /\ notified' = IF Top.fn \in Diffing THEN notified \cup {Top.list} ELSE notified
  BY DEF OptionsInv, Ask, Reporting, LibraryRuns
<1>2. Top \in Call
  BY <1>1, TopTypes
<1>3. Top.done + 1 \in 0 .. Items
  BY <1>1, <1>2, OptionsAssumption DEF Call
<1>4. c \in Call /\ c.array = Top.array /\ c.fn = Top.fn /\ c.list = Top.list /\ c.asking = TRUE
  BY <1>2, <1>3 DEF Call
<1> HIDE DEF c
<1>5. ArrayInv'
  BY <1>1, <1>4, SetKeepsArrays
<1>6. ListInv'
  BY <1>1, <1>4, SetKeepsLists
<1>7. TypeOK'
  BY <1>1, <1>4, SetFacts, TopTypes DEF TypeOK
<1> QED BY <1>5, <1>6, <1>7 DEF OptionsInv

LEMMA UnwoundFacts ==
  ASSUME Unwound(Top)
  PROVE  \/ arrays' = arrays \ {Top.array} /\ lost' = lost
         \/ arrays' = arrays /\ lost' = lost \cup ({Top.array} \ {None})
  BY DEF Unwound, FreeArray

LEMMA AskNobodyInv == OptionsInv /\ AskNobody => OptionsInv'
<1> SUFFICES ASSUME OptionsInv, AskNobody PROVE OptionsInv'
  OBVIOUS
<1>1. /\ TypeOK /\ ArrayInv /\ ListInv /\ stack # <<>> /\ stack' = Pop
      /\ Unwound(Top) /\ UNCHANGED held
  BY DEF OptionsInv, AskNobody, Reporting, LibraryRuns
<1>2. ArrayInv'
  BY <1>1, PopKeepsArrays, UnwoundFacts
<1>3. ListInv'
  <2>1. CASE Top.fn \in Diffing
    BY <1>1, <2>1, PopKeepsLists DEF AskNobody
  <2>2. CASE Top.fn \notin Diffing
    BY <1>1, <2>2, PopKeepsLists DEF AskNobody
  <2> QED BY <2>1, <2>2
<1>4. TypeOK'
  BY <1>1, PopFacts, TopTypes, UnwoundFacts DEF TypeOK, AskNobody, FreeList
<1> QED BY <1>2, <1>3, <1>4 DEF OptionsInv

LEMMA ThrowInv == OptionsInv /\ Throw => OptionsInv'
<1> SUFFICES ASSUME OptionsInv, Throw PROVE OptionsInv'
  OBVIOUS
<1>1. /\ TypeOK /\ ArrayInv /\ ListInv /\ stack # <<>> /\ stack' = Pop
      /\ Unwound(Top) /\ UNCHANGED <<held, notified>>
  BY DEF OptionsInv, Throw
<1>2. ArrayInv'
  BY <1>1, PopKeepsArrays, UnwoundFacts
<1>3. ListInv'
  BY <1>1, PopKeepsLists DEF Throw
<1>4. TypeOK'
  BY <1>1, PopFacts, TopTypes, UnwoundFacts DEF TypeOK, Throw, FreeList
<1> QED BY <1>2, <1>3, <1>4 DEF OptionsInv

LEMMA AnswerInv ==
  ASSUME NEW keep \in BOOLEAN PROVE OptionsInv /\ Answer(keep) => OptionsInv'
<1> SUFFICES ASSUME OptionsInv, Answer(keep) PROVE OptionsInv'
  OBVIOUS
<1>0. /\ TypeOK /\ ArrayInv /\ ListInv /\ stack # <<>> /\ Top.fn \notin Diffing
      /\ UNCHANGED <<lists, held, lost, notified, fault>>
  BY DEF OptionsInv, Answer
<1>1. CASE keep
  <2> DEFINE c == [Top EXCEPT !.asking = FALSE]
  <2>1. stack' = SetTop(c) /\ arrays' = arrays
    BY <1>1 DEF Answer
  <2>2. c \in Call /\ c.array = Top.array /\ c.fn = Top.fn /\ c.list = Top.list
    BY <1>0, TopTypes DEF Call
  <2> HIDE DEF c
  <2>3. ArrayInv'
    BY <1>0, <2>1, <2>2, SetKeepsArrays
  <2>4. ListInv'
    BY <1>0, <2>1, <2>2, SetKeepsLists
  <2>5. TypeOK'
    BY <1>0, <2>1, <2>2, SetFacts DEF TypeOK
  <2> QED BY <2>3, <2>4, <2>5 DEF OptionsInv
<1>2. CASE ~keep
  <2>1. stack' = Pop /\ arrays' = arrays \ {Top.array}
    BY <1>2 DEF Answer, FreeArray
  <2>2. ArrayInv'
    BY <1>0, <2>1, PopKeepsArrays
  <2>3. ListInv'
    BY <1>0, <2>1, PopKeepsLists
  <2>4. TypeOK'
    BY <1>0, <2>1, PopFacts DEF TypeOK
  <2> QED BY <2>2, <2>3, <2>4 DEF OptionsInv
<1> QED BY <1>1, <1>2

LEMMA AnswerDiffInv ==
  ASSUME NEW verdict \in {"insert", "skip", "abort"}
  PROVE  OptionsInv /\ AnswerDiff(verdict) => OptionsInv'
<1> SUFFICES ASSUME OptionsInv, AnswerDiff(verdict) PROVE OptionsInv'
  OBVIOUS
<1>0. /\ TypeOK /\ ArrayInv /\ ListInv /\ stack # <<>> /\ Top.fn \in Diffing /\ Top.asking
      /\ lists' = lists \ {Top.list} /\ fault' = fault \cup {Top.list}
      /\ UNCHANGED <<held, lost, notified>>
  BY DEF OptionsInv, AnswerDiff
<1>a. Top.list \in notified /\ Top.list \in Addr
  BY <1>0, TopFacts DEF TypeOK, ListInv, ListsUnderWay
<1>1. CASE verdict # "abort"
  <2> DEFINE c == [Top EXCEPT !.asking = FALSE]
  <2>1. stack' = SetTop(c) /\ arrays' = arrays
    BY <1>1 DEF AnswerDiff
  <2>2. /\ c \in Call /\ c.array = Top.array /\ c.fn = Top.fn /\ c.list = Top.list
        /\ c.asking = FALSE
    BY <1>0, TopTypes DEF Call
  <2> HIDE DEF c
  <2>3. ArrayInv'
    BY <1>0, <2>1, <2>2, SetKeepsArrays
  <2>4. ListInv'
    BY <1>0, <2>1, <2>2, SetKeepsLists
  <2>5. TypeOK'
    BY <1>0, <1>a, <2>1, <2>2, SetFacts DEF TypeOK
  <2> QED BY <2>3, <2>4, <2>5 DEF OptionsInv
<1>2. CASE verdict = "abort"
  <2>1. stack' = Pop /\ arrays' = arrays \ {Top.array}
    BY <1>2 DEF AnswerDiff, FreeArray
  <2>2. ArrayInv'
    BY <1>0, <2>1, PopKeepsArrays
  <2>3. ListInv'
    BY <1>0, <1>a, <2>1, PopKeepsLists
  <2>4. TypeOK'
    BY <1>0, <1>a, <2>1, PopFacts DEF TypeOK
  <2> QED BY <2>2, <2>3, <2>4 DEF OptionsInv
<1> QED BY <1>1, <1>2

-----------------------------------------------------------------------------
(* The theorems.                                                            *)

LEMMA NextInv == OptionsInv /\ [Next]_vars => OptionsInv'
<1>1. OptionsInv /\ UNCHANGED vars => OptionsInv'
  BY DEF vars, OptionsInv, TypeOK, ArrayInv, ArraysWithTheirCalls, ArrayOf, ListInv,
     OnlyNotifiedListsFail, ListsApart, ListsUnderWay
<1> QED BY <1>1, EnterInv, FailsInv, FinishInv, AskInv, AskNobodyInv, ThrowInv, ObtainInv,
           ReleaseInv, AnswerInv, AnswerDiffInv DEF Next

LEMMA Invariant == Spec => []OptionsInv
  BY InitInv, NextInv, PTL DEF Spec

(* The calls, arrays and lists always have their types.                     *)
THEOREM OptionsTypeCorrect == Spec => []TypeOK
<1>1. OptionsInv => TypeOK
  BY DEF OptionsInv
<1> QED BY <1>1, Invariant, PTL

(* Each call has its own array, and none stays behind but that of a diff    *)
(* whose callback threw.                                                    *)
THEOREM ArraysGoWithTheirCalls == Spec => []ArraysWithTheirCalls
<1>1. OptionsInv => ArraysWithTheirCalls
  BY DEF OptionsInv, ArrayInv
<1> QED BY <1>1, Invariant, PTL

(* A diff list goes wrong only after a notification was made for it.        *)
THEOREM NotificationsSpoilLists == Spec => []OnlyNotifiedListsFail
<1>1. OptionsInv => OnlyNotifiedListsFail
  BY DEF OptionsInv, ListInv
<1> QED BY <1>1, Invariant, PTL
=============================================================================
