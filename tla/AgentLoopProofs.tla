-------------------------- MODULE AgentLoopProofs --------------------------
(***************************************************************************)
(* Proofs about the agent loop, for any number of runs, calls, iterations  *)
(* and retries, and whatever runs stop or overlap.                         *)
(***************************************************************************)
EXTENDS AgentLoop, TLAPS

(* What is known of a call whose tool is not idempotent: it was started at *)
(* most once, and not at all while no event names it or while the one run  *)
(* that streamed it has yet to execute it.                                 *)
Holds(r, c) == Live(r) /\ c \in todo[r]

StartedOnce ==
  /\ \A r \in Runs : pc[r] = "request" => todo[r] = {}
  /\ \A c \in Calls \ Idempotent :
       /\ executions[c] <= 1
       /\ c \notin Known(log) => executions[c] = 0
       /\ \A r \in Runs : Holds(r, c) =>
            /\ c \in Known(log)
            /\ executions[c] = 0 \/ (pc[r] = "invoked" /\ current[r] = c)
            /\ \A s \in Runs : Holds(s, c) => s = r

(* Without overlap the one active run knows every unanswered call.         *)
Accounted ==
  /\ \A r, s \in Runs : Active(r) /\ Active(s) => r = s
  /\ \A r \in Runs :
       /\ pc[r] \in {"recover", "claimed", "recovering", "tools", "invoked"} =>
            Unanswered(log) \subseteq todo[r]
       /\ pc[r] \in {"request", "stream"} => Unanswered(log) = {}

DialogueInv == ~overlapped => Legal(log) /\ Accounted

IInv == TypeOK /\ StartedOnce /\ DialogueInv

-----------------------------------------------------------------------------
(* The log grows at its end.                                               *)

LEMMA AppendFacts ==
  ASSUME NEW l \in Seq(Record), NEW k, NEW S, Rec(k, S) \in Record
  PROVE  /\ Append(l, Rec(k, S)) \in Seq(Record)
         /\ DOMAIN Append(l, Rec(k, S)) = DOMAIN l \union {Len(l) + 1}
         /\ DOMAIN l = 1..Len(l) /\ Len(l) \in Nat
         /\ \A i \in DOMAIN l : Append(l, Rec(k, S))[i] = l[i] /\ l[i] \in Record
         /\ Append(l, Rec(k, S))[Len(l) + 1].kind = k
         /\ Append(l, Rec(k, S))[Len(l) + 1].calls = S
PROOF
  <1>1. /\ Append(l, Rec(k, S)) \in Seq(Record)
        /\ Len(Append(l, Rec(k, S))) = Len(l) + 1
        /\ Append(l, Rec(k, S))[Len(l) + 1] = Rec(k, S)
    OBVIOUS
  <1>2. /\ DOMAIN l = 1..Len(l) /\ Len(l) \in Nat
        /\ DOMAIN Append(l, Rec(k, S)) = 1..(Len(l) + 1)
    OBVIOUS
  <1>3. \A i \in DOMAIN l : Append(l, Rec(k, S))[i] = l[i] /\ l[i] \in Record
    OBVIOUS
  <1>4. Rec(k, S).kind = k /\ Rec(k, S).calls = S
    BY DEF Rec
  <1> QED BY <1>1, <1>2, <1>3, <1>4

LEMMA CarriedAppend ==
  ASSUME NEW l \in Seq(Record), NEW k, NEW S, NEW kinds, Rec(k, S) \in Record
  PROVE  Carried(Append(l, Rec(k, S)), kinds)
           = Carried(l, kinds) \union (IF k \in kinds THEN S ELSE {})
PROOF
  <1> DEFINE m == Append(l, Rec(k, S))
  <1>1. /\ DOMAIN m = DOMAIN l \union {Len(l) + 1}
        /\ \A i \in DOMAIN l : m[i] = l[i]
        /\ m[Len(l) + 1].kind = k /\ m[Len(l) + 1].calls = S
    BY AppendFacts
  <1> HIDE DEF m
  <1>2. ASSUME NEW c \in Carried(m, kinds)
        PROVE  c \in Carried(l, kinds) \union (IF k \in kinds THEN S ELSE {})
    BY <1>1, <1>2 DEF Carried
  <1>3. ASSUME NEW c \in Carried(l, kinds)
        PROVE  c \in Carried(m, kinds)
    <2>1. PICK i \in DOMAIN l : l[i].kind \in kinds /\ c \in l[i].calls
      BY <1>3 DEF Carried
    <2>2. i \in DOMAIN m /\ m[i].kind \in kinds /\ c \in m[i].calls BY <1>1, <2>1
    <2> QED BY <2>2 DEF Carried
  <1>4. ASSUME NEW c \in S, k \in kinds
        PROVE  c \in Carried(m, kinds)
    <2>1. /\ Len(l) + 1 \in DOMAIN m
          /\ m[Len(l) + 1].kind \in kinds /\ c \in m[Len(l) + 1].calls
      BY <1>1, <1>4
    <2> QED BY <2>1 DEF Carried
  <1> QED BY <1>2, <1>3, <1>4 DEF m

LEMMA CarriedCalls ==
  ASSUME NEW l \in Seq(Record), NEW kinds
  PROVE  Carried(l, kinds) \subseteq Calls
PROOF
  <1>1. \A i \in DOMAIN l : l[i].calls \subseteq Calls
    <2>1. \A i \in DOMAIN l : l[i] \in Record OBVIOUS
    <2> QED BY <2>1 DEF Record
  <1> QED BY <1>1 DEF Carried

(* An answer settles its call, an announcement adds its calls, and no      *)
(* other event changes what is unanswered.                                 *)
LEMMA UnansweredAppend ==
  ASSUME NEW l \in Seq(Record), NEW k, NEW S, Rec(k, S) \in Record
  PROVE  /\ k \notin Answers /\ k # "assistant" =>
              Unanswered(Append(l, Rec(k, S))) \subseteq Unanswered(l)
         /\ k = "assistant" => Unanswered(Append(l, Rec(k, S))) \subseteq Unanswered(l) \union S
         /\ k \in Answers => Unanswered(Append(l, Rec(k, S))) \subseteq Unanswered(l) \ S
PROOF
  <1> DEFINE m == Append(l, Rec(k, S))
  <1>1. /\ DOMAIN m = DOMAIN l \union {Len(l) + 1}
        /\ DOMAIN l = 1..Len(l) /\ Len(l) \in Nat
        /\ \A i \in DOMAIN l : m[i] = l[i]
        /\ m[Len(l) + 1].kind = k /\ m[Len(l) + 1].calls = S
    BY AppendFacts
  <1> HIDE DEF m
  <1>2. ASSUME NEW c \in Unanswered(m)
        PROVE  /\ c \in Unanswered(l) \/ (k = "assistant" /\ c \in S)
               /\ k \in Answers => c \notin S
    <2>1. PICK i \in DOMAIN m :
             /\ m[i].kind = "assistant" /\ c \in m[i].calls
             /\ \A j \in DOMAIN m : j > i /\ m[j].kind \in Answers => c \notin m[j].calls
      BY <1>2 DEF Unanswered
    <2>2. CASE i = Len(l) + 1
      BY <1>1, <2>1, <2>2 DEF Answers
    <2>3. CASE i \in DOMAIN l
      <3>1. Len(l) + 1 > i BY <1>1, <2>3
      <3>2. c \in Calls BY <1>2 DEF Unanswered
      <3>3. \A j \in DOMAIN l : j > i /\ l[j].kind \in Answers => c \notin l[j].calls
        BY <1>1, <2>1
      <3>4. c \in Unanswered(l) BY <1>1, <2>1, <2>3, <3>2, <3>3 DEF Unanswered
      <3> QED BY <1>1, <2>1, <3>1, <3>4
    <2> QED BY <1>1, <2>2, <2>3
  <1>3. "assistant" \notin Answers BY DEF Answers
  <1> QED BY <1>2, <1>3 DEF m

LEMMA LegalAppend ==
  ASSUME NEW l \in Seq(Record), NEW k, NEW S, Rec(k, S) \in Record, Legal(l),
         k \in {"user", "assistant"} => Unanswered(l) = {}
  PROVE  Legal(Append(l, Rec(k, S)))
PROOF
  <1> DEFINE m == Append(l, Rec(k, S))
  <1>1. /\ DOMAIN m = DOMAIN l \union {Len(l) + 1}
        /\ DOMAIN l = 1..Len(l) /\ Len(l) \in Nat
        /\ \A i \in DOMAIN l : m[i] = l[i] /\ l[i] \in Record
        /\ m[Len(l) + 1].kind = k /\ m[Len(l) + 1].calls = S
    BY AppendFacts
  <1> HIDE DEF m
  <1> SUFFICES ASSUME NEW i \in DOMAIN m, m[i].kind \in {"user", "assistant"},
                      NEW j \in 1..(i - 1), m[j].kind = "assistant",
                      NEW c \in m[j].calls
               PROVE  \E n \in (j + 1)..(i - 1) : m[n].kind \in Answers /\ c \in m[n].calls
    BY DEF Legal, m
  <1>2. j \in DOMAIN l /\ m[j] = l[j] BY <1>1
  <1>3. CASE i \in DOMAIN l
    <2>1. \E n \in (j + 1)..(i - 1) : l[n].kind \in Answers /\ c \in l[n].calls
      BY <1>1, <1>2, <1>3 DEF Legal
    <2>2. \A n \in (j + 1)..(i - 1) : n \in DOMAIN l BY <1>1, <1>3
    <2> QED BY <1>1, <2>1, <2>2
  <1>4. CASE i = Len(l) + 1
    <2>1. Unanswered(l) = {} BY <1>1, <1>4
    <2>2. c \in Calls BY <1>1, <1>2 DEF Record
    <2>3. PICK n \in DOMAIN l : n > j /\ l[n].kind \in Answers /\ c \in l[n].calls
      BY <1>2, <2>1, <2>2 DEF Unanswered
    <2>4. n \in (j + 1)..(i - 1) BY <1>1, <1>4, <2>3
    <2> QED BY <1>1, <2>3, <2>4
  <1> QED BY <1>1, <1>3, <1>4

-----------------------------------------------------------------------------
(* Type correctness.                                                       *)

LEMMA RecordTypes ==
  /\ \A c \in Calls : /\ Rec("result", {c}) \in Record /\ Rec("unknown", {c}) \in Record
                      /\ Rec("delta", {c}) \in Record /\ Rec("opening", {c}) \in Record
  /\ \A S \in SUBSET Calls : Rec("assistant", S) \in Record
  /\ Rec("user", {}) \in Record /\ Rec("assistant", {}) \in Record
BY DEF Rec, Record

LEMMA EndType ==
  ASSUME TypeOK, NEW r \in Runs, End(r)
  PROVE  /\ pc' \in [Runs -> Places] /\ iteration' \in [Runs -> 0..MaxIterations]
         /\ attempt' \in [Runs -> Nat] /\ todo' \in [Runs -> SUBSET Calls]
         /\ current' \in [Runs -> Calls \union {None}]
         /\ \A s \in Runs :
              pc'[s] \in {"claimed", "recovering", "invoked"} => current'[s] \in todo'[s]
         /\ \A s \in Runs : Live(s)' => iteration'[s] < MaxIterations
BY AgentLoopAssumption DEF TypeOK, End, Goto, Places, Live

LEMMA PendingType ==
  ASSUME NEW l \in Seq(Record)
  PROVE  PendingToolCalls(l) \subseteq Calls
BY CarriedCalls DEF PendingToolCalls, Unanswered

LEMMA InitType == Init => TypeOK
PROOF
  <1> SUFFICES ASSUME Init PROVE TypeOK OBVIOUS
  <1>1. log \in Seq(Record) BY DEF Init
  <1>2. iteration \in [Runs -> 0..MaxIterations] BY AgentLoopAssumption DEF Init
  <1>3. /\ leased \subseteq Calls /\ stolen \subseteq Calls
        /\ overlapped \in BOOLEAN
    BY DEF Init
  <1>4. /\ pc \in [Runs -> Places] /\ attempt \in [Runs -> Nat]
        /\ executions \in [Calls -> 0..2]
    BY DEF Init, Places
  <1>5. /\ todo \in [Runs -> SUBSET Calls]
        /\ current \in [Runs -> Calls \union {None}]
    <2>1. {} \in SUBSET Calls /\ None \in Calls \union {None} OBVIOUS
    <2>2. todo \in [Runs -> SUBSET Calls] BY <2>1, Zenon DEF Init
    <2>3. current \in [Runs -> Calls \union {None}] BY <2>1, Zenon DEF Init
    <2> QED BY <2>2, <2>3
  <1>6. \A r \in Runs : pc[r] = "idle" BY DEF Init
  <1> QED BY <1>1, <1>2, <1>3, <1>4, <1>5, <1>6 DEF TypeOK, Live

LEMMA StepType == TypeOK /\ [Next]_vars => TypeOK'
PROOF
  <1> SUFFICES ASSUME TypeOK, [Next]_vars PROVE TypeOK' OBVIOUS
  <1> USE AgentLoopAssumption
  <1>1. ASSUME NEW r \in Runs, Start(r) PROVE TypeOK'
    BY <1>1 DEF Start, Goto, TypeOK, Places, Live
  <1>2. ASSUME NEW r \in Runs, Scan(r) PROVE TypeOK'
    <2>1. CASE End(r) BY <1>2, <2>1, EndType DEF Scan, TypeOK
    <2>2. CASE Goto(r, "recover") /\ todo' = [todo EXCEPT ![r] = PendingToolCalls(log)]
               /\ UNCHANGED <<iteration, attempt, current>>
      <3>1. PendingToolCalls(log) \subseteq Calls BY PendingType DEF TypeOK
      <3> QED BY <1>2, <2>2, <3>1 DEF Scan, Goto, TypeOK, Places, Live
    <2> QED BY <1>2, <2>1, <2>2 DEF Scan
  <1>3. ASSUME NEW r \in Runs, Claim(r) PROVE TypeOK'
    BY <1>3 DEF Claim, Goto, TypeOK, Places, Live
  <1>4. ASSUME NEW r \in Runs, ClaimRefused(r) PROVE TypeOK'
    BY <1>4, EndType DEF ClaimRefused, TypeOK
  <1>5. ASSUME NEW r \in Runs, RecoverUnknown(r) PROVE TypeOK'
    <2>1. log' \in Seq(Record)
      BY <1>5, RecordTypes, AppendFacts DEF RecoverUnknown, Log, TypeOK
    <2> QED BY <1>5, <2>1, EndType DEF RecoverUnknown, TypeOK
  <1>6. ASSUME NEW r \in Runs, RecoverExecute(r) PROVE TypeOK'
    BY <1>6 DEF RecoverExecute, Execute, Goto, TypeOK, Places, Live
  <1>7. ASSUME NEW r \in Runs, RecoverResult(r) PROVE TypeOK'
    <2>1. log' \in Seq(Record)
      BY <1>7, RecordTypes, AppendFacts DEF RecoverResult, Log, TypeOK
    <2> QED BY <1>7, <2>1 DEF RecoverResult, Goto, TypeOK, Places, Live
  <1>8. ASSUME NEW r \in Runs, AppendUser(r) PROVE TypeOK'
    <2>1. log' \in Seq(Record)
      BY <1>8, RecordTypes, AppendFacts DEF AppendUser, Log, TypeOK
    <2> QED BY <1>8, <2>1 DEF AppendUser, Goto, TypeOK, Places, Live
  <1>9. ASSUME NEW r \in Runs, Request(r) PROVE TypeOK'
    <2>1. CASE End(r) BY <1>9, <2>1, EndType DEF Request, TypeOK
    <2>2. CASE iteration[r] < MaxIterations /\ Goto(r, "stream")
               /\ attempt' = [attempt EXCEPT ![r] = 0] /\ UNCHANGED <<iteration, todo, current>>
      BY <1>9, <2>2 DEF Request, Goto, TypeOK, Places, Live
    <2> QED BY <1>9, <2>1, <2>2 DEF Request
  <1>10. ASSUME NEW r \in Runs, StreamDelta(r) PROVE TypeOK'
    <2>1. log' \in Seq(Record)
      <3>1. PICK c \in Calls, kind \in {"opening", "delta"} : log' = Append(log, Rec(kind, {c}))
        BY <1>10 DEF StreamDelta, Log
      <3>2. Rec(kind, {c}) \in Record BY RecordTypes
      <3> QED BY <3>1, <3>2, AppendFacts DEF TypeOK
    <2>2. PICK c \in Calls : todo' = [todo EXCEPT ![r] = @ \union {c}]
      BY <1>10 DEF StreamDelta
    <2>3. /\ todo' \in [Runs -> SUBSET Calls]
          /\ \A s \in Runs : todo[s] \subseteq todo'[s]
      BY <2>2 DEF TypeOK
    <2> QED BY <1>10, <2>1, <2>3 DEF StreamDelta, TypeOK, Live
  <1>11. ASSUME NEW r \in Runs, RetryModel(r) PROVE TypeOK'
    BY <1>11 DEF RetryModel, TypeOK, Live
  <1>12. ASSUME NEW r \in Runs, Answer(r) PROVE TypeOK'
    <2>1. log' \in Seq(Record)
      BY <1>12, RecordTypes, AppendFacts DEF Answer, Log, TypeOK
    <2>2. CASE End(r) BY <1>12, <2>1, <2>2, EndType DEF Answer, TypeOK
    <2>3. CASE Goto(r, "request") /\ iteration' = [iteration EXCEPT ![r] = @ + 1]
               /\ attempt' = [attempt EXCEPT ![r] = 0] /\ UNCHANGED <<todo, current>>
      <3>1. iteration[r] \in 0..MaxIterations /\ iteration[r] < MaxIterations
        BY <1>12 DEF Answer, TypeOK, Live
      <3>2. iteration' \in [Runs -> 0..MaxIterations] BY <2>3, <3>1 DEF TypeOK
      <3> QED BY <1>12, <2>1, <2>3, <3>2 DEF Answer, Goto, TypeOK, Places, Live
    <2> QED BY <1>12, <2>2, <2>3 DEF Answer
  <1>13. ASSUME NEW r \in Runs, AppendAssistant(r) PROVE TypeOK'
    <2>1. log' \in Seq(Record)
      BY <1>13, RecordTypes, AppendFacts DEF AppendAssistant, Log, TypeOK
    <2> QED BY <1>13, <2>1 DEF AppendAssistant, Goto, TypeOK, Places, Live
  <1>14. ASSUME NEW r \in Runs, Invoke(r) PROVE TypeOK'
    BY <1>14 DEF Invoke, Execute, Goto, TypeOK, Places, Live
  <1>15. ASSUME NEW r \in Runs, RetryTool(r) PROVE TypeOK'
    BY <1>15 DEF RetryTool, Execute, TypeOK, Live
  <1>16. ASSUME NEW r \in Runs, AppendResult(r) PROVE TypeOK'
    <2>1. log' \in Seq(Record)
      BY <1>16, RecordTypes, AppendFacts DEF AppendResult, Log, TypeOK
    <2> QED BY <1>16, <2>1 DEF AppendResult, Goto, TypeOK, Places, Live
  <1>17. ASSUME NEW r \in Runs, NextIteration(r) PROVE TypeOK'
    <2>1. iteration[r] \in 0..MaxIterations /\ iteration[r] < MaxIterations
      BY <1>17 DEF NextIteration, TypeOK, Live
    <2>2. iteration' \in [Runs -> 0..MaxIterations] BY <1>17, <2>1 DEF NextIteration, TypeOK
    <2> QED BY <1>17, <2>2 DEF NextIteration, Goto, TypeOK, Places, Live
  <1>18. ASSUME NEW r \in Runs, Stop(r) PROVE TypeOK'
    BY <1>18, EndType DEF Stop, TypeOK
  <1>19. ASSUME NEW c \in Calls, LeaseExpires(c) PROVE TypeOK'
    BY <1>19 DEF LeaseExpires, runVars, TypeOK, Live
  <1>20. CASE UNCHANGED vars BY <1>20 DEF vars, TypeOK, Live
  <1> QED
    BY <1>1, <1>2, <1>3, <1>4, <1>5, <1>6, <1>7, <1>8, <1>9, <1>10, <1>11, <1>12, <1>13,
       <1>14, <1>15, <1>16, <1>17, <1>18, <1>19, <1>20 DEF Next, Step

(* Every variable stays within its type, and a run that works on a call    *)
(* has it on its list, whatever runs stop or overlap.                      *)
THEOREM Typing == Spec => []TypeOK
  <1> QED BY InitType, StepType, PTL DEF Spec

-----------------------------------------------------------------------------
(* Tools that are not idempotent.                                          *)

LEMMA KnownGrows ==
  ASSUME TypeOK, NEW k, NEW S, Rec(k, S) \in Record, Log(k, S)
  PROVE  Known(log)' = Known(log)
           \union (IF k \in {"assistant", "delta", "opening"} THEN S ELSE {})
BY CarriedAppend DEF Known, Log, TypeOK

(* A step that starts no such tool and gives no run a new call.            *)
LEMMA StartedFrame ==
  ASSUME StartedOnce, Known(log) \subseteq Known(log)',
         \A c \in Calls \ Idempotent : executions'[c] = executions[c],
         \A r \in Runs : pc'[r] = "request" => todo'[r] = {},
         \A r \in Runs, c \in Calls : Holds(r, c)' =>
           /\ Holds(r, c)
           /\ pc[r] = "invoked" /\ current[r] = c => pc'[r] = "invoked" /\ current'[r] = c
  PROVE  StartedOnce'
BY DEF StartedOnce

LEMMA EndHolds ==
  ASSUME TypeOK, NEW q \in Runs, End(q)
  PROVE  \A r \in Runs, c \in Calls : Holds(r, c)' =>
           /\ Holds(r, c)
           /\ pc[r] = "invoked" /\ current[r] = c => pc'[r] = "invoked" /\ current'[r] = c
BY DEF End, Goto, Holds, Live, TypeOK

LEMMA EndRequest ==
  ASSUME TypeOK, StartedOnce, NEW q \in Runs, End(q)
  PROVE  \A r \in Runs : pc'[r] = "request" => todo'[r] = {}
BY DEF StartedOnce, End, Goto, TypeOK

LEMMA InitStarted == Init => StartedOnce
PROOF
  <1> SUFFICES ASSUME Init PROVE StartedOnce OBVIOUS
  <1>1. \A r \in Runs : pc[r] = "idle" BY DEF Init
  <1>2. \A c \in Calls : executions[c] = 0 BY DEF Init
  <1> QED BY <1>1, <1>2 DEF StartedOnce, Holds, Live

LEMMA StepStarted == TypeOK /\ StartedOnce /\ [Next]_vars => StartedOnce'
PROOF
  <1> SUFFICES ASSUME TypeOK, StartedOnce, [Next]_vars PROVE StartedOnce' OBVIOUS
  <1>1. ASSUME NEW r \in Runs, Start(r) PROVE StartedOnce'
    BY <1>1, StartedFrame DEF Start, Goto, TypeOK, Known, Holds, Live, StartedOnce
  <1>2. ASSUME NEW r \in Runs, Scan(r) PROVE StartedOnce'
    <2>1. CASE End(r)
      BY <1>2, <2>1, StartedFrame, EndHolds, EndRequest DEF Scan, Known
    <2>2. CASE Goto(r, "recover") /\ todo' = [todo EXCEPT ![r] = PendingToolCalls(log)]
               /\ UNCHANGED <<iteration, attempt, current>>
      BY <1>2, <2>2, StartedFrame DEF Scan, Goto, TypeOK, Known, Holds, Live, StartedOnce
    <2> QED BY <1>2, <2>1, <2>2 DEF Scan
  <1>3. ASSUME NEW r \in Runs, Claim(r) PROVE StartedOnce'
    BY <1>3, StartedFrame DEF Claim, Goto, TypeOK, Known, Holds, Live, StartedOnce
  <1>4. ASSUME NEW r \in Runs, ClaimRefused(r) PROVE StartedOnce'
    BY <1>4, StartedFrame, EndHolds, EndRequest DEF ClaimRefused, Known
  <1>5. ASSUME NEW r \in Runs, RecoverUnknown(r) PROVE StartedOnce'
    <2>1. current[r] \in Calls BY <1>5 DEF RecoverUnknown, TypeOK
    <2>2. Known(log)' = Known(log) BY <1>5, <2>1, KnownGrows, RecordTypes DEF RecoverUnknown
    <2> QED BY <1>5, <2>2, StartedFrame, EndHolds, EndRequest DEF RecoverUnknown
  <1>6. ASSUME NEW r \in Runs, RecoverExecute(r) PROVE StartedOnce'
    BY <1>6, StartedFrame
    DEF RecoverExecute, Execute, Goto, TypeOK, Known, Holds, Live, StartedOnce
  <1>7. ASSUME NEW r \in Runs, RecoverResult(r) PROVE StartedOnce'
    <2>1. current[r] \in Calls BY <1>7 DEF RecoverResult, TypeOK
    <2>2. Known(log)' = Known(log) BY <1>7, <2>1, KnownGrows, RecordTypes DEF RecoverResult
    <2> QED
      BY <1>7, <2>2, StartedFrame DEF RecoverResult, Goto, TypeOK, Holds, Live, StartedOnce
  <1>8. ASSUME NEW r \in Runs, AppendUser(r) PROVE StartedOnce'
    <2>1. Known(log)' = Known(log) BY <1>8, KnownGrows, RecordTypes DEF AppendUser
    <2> QED
      BY <1>8, <2>1, StartedFrame DEF AppendUser, Goto, TypeOK, Holds, Live, StartedOnce
  <1>9. ASSUME NEW r \in Runs, Request(r) PROVE StartedOnce'
    <2>1. CASE End(r)
      BY <1>9, <2>1, StartedFrame, EndHolds, EndRequest DEF Request, Known
    <2>2. CASE Goto(r, "stream") /\ UNCHANGED <<iteration, todo, current>>
      BY <1>9, <2>2, StartedFrame DEF Request, Goto, TypeOK, Known, Holds, Live, StartedOnce
    <2> QED BY <1>9, <2>1, <2>2 DEF Request
  <1>10. ASSUME NEW r \in Runs, StreamDelta(r) PROVE StartedOnce'
    <2>1. PICK c \in Calls, kind \in {"opening", "delta"} :
            /\ c \notin Known(log) \/ c \in todo[r]
            /\ Log(kind, {c})
            /\ todo' = [todo EXCEPT ![r] = @ \union {c}]
      BY <1>10 DEF StreamDelta
    <2>2. Known(log)' = Known(log) \union {c}
      BY <2>1, KnownGrows, RecordTypes
    <2>3. Live(r) /\ pc' = pc /\ current' = current /\ executions' = executions
      BY <1>10 DEF StreamDelta, Live
    <2>4. \A s \in Runs, d \in Calls : Holds(s, d)' <=> Holds(s, d) \/ (s = r /\ d = c)
      BY <2>1, <2>3 DEF Holds, Live, TypeOK
    <2>5. \A s \in Runs : pc'[s] = "request" => todo'[s] = {}
      BY <1>10, <2>1, <2>3 DEF StreamDelta, StartedOnce, TypeOK
    <2>6. ASSUME c \notin Idempotent
          PROVE  \A s \in Runs : Holds(s, c) => s = r
      BY <2>1, <2>3, <2>6 DEF StartedOnce, Holds
    <2>7. ASSUME c \notin Idempotent
          PROVE  executions[c] = 0 \/ (pc[r] = "invoked" /\ current[r] = c)
      BY <2>1, <2>3, <2>7 DEF StartedOnce, Holds
    <2> QED BY <2>2, <2>3, <2>4, <2>5, <2>6, <2>7 DEF StartedOnce
  <1>11. ASSUME NEW r \in Runs, RetryModel(r) PROVE StartedOnce'
    BY <1>11, StartedFrame DEF RetryModel, TypeOK, Known, Holds, Live, StartedOnce
  <1>12. ASSUME NEW r \in Runs, Answer(r) PROVE StartedOnce'
    <2>1. Known(log)' = Known(log) BY <1>12, KnownGrows, RecordTypes DEF Answer
    <2>2. CASE End(r) BY <1>12, <2>1, <2>2, StartedFrame, EndHolds, EndRequest DEF Answer
    <2>3. CASE Goto(r, "request") /\ UNCHANGED <<todo, current>>
      BY <1>12, <2>1, <2>3, StartedFrame DEF Answer, Goto, TypeOK, Holds, Live, StartedOnce
    <2> QED BY <1>12, <2>2, <2>3 DEF Answer
  <1>13. ASSUME NEW r \in Runs, AppendAssistant(r) PROVE StartedOnce'
    <2>1. todo[r] \in SUBSET Calls BY DEF TypeOK
    <2>2. Known(log) \subseteq Known(log)'
      BY <1>13, <2>1, KnownGrows, RecordTypes DEF AppendAssistant
    <2> QED
      BY <1>13, <2>2, StartedFrame
      DEF AppendAssistant, Goto, TypeOK, Holds, Live, StartedOnce
  <1>14. ASSUME NEW r \in Runs, Invoke(r) PROVE StartedOnce'
    <2>1. PICK c \in todo[r] :
            /\ pc[r] = "tools" /\ Execute(c)
            /\ current' = [current EXCEPT ![r] = c] /\ Goto(r, "invoked")
            /\ log' = log /\ todo' = todo
      BY <1>14 DEF Invoke
    <2>2. c \in Calls /\ Holds(r, c) BY <2>1 DEF TypeOK, Holds, Live
    <2>3. \A s \in Runs, d \in Calls : Holds(s, d)' <=> Holds(s, d)
      BY <2>1 DEF Holds, Live, Goto, TypeOK
    <2>4. \A s \in Runs : s # r => pc'[s] = pc[s] /\ current'[s] = current[s]
      BY <2>1 DEF Goto, TypeOK
    <2>5. pc'[r] = "invoked" /\ current'[r] = c BY <2>1 DEF Goto, TypeOK
    <2>6. /\ \A d \in Calls : d # c => executions'[d] = executions[d]
          /\ executions[c] = 0 => executions'[c] = 1
      BY <2>1, <2>2 DEF Execute, TypeOK
    <2>7. Known(log)' = Known(log) BY <2>1 DEF Known
    <2>8. c \notin Idempotent => executions[c] = 0 /\ c \in Known(log)
      BY <2>1, <2>2 DEF StartedOnce
    <2>9. ASSUME NEW s \in Runs, NEW d \in Calls \ Idempotent, Holds(s, d)
          PROVE  executions'[d] = 0 \/ (pc'[s] = "invoked" /\ current'[s] = d)
      <3>1. CASE d = c BY <2>2, <2>5, <2>9, <3>1 DEF StartedOnce
      <3>2. CASE d # c BY <2>1, <2>4, <2>6, <2>9, <3>2 DEF StartedOnce
      <3> QED BY <3>1, <3>2
    <2>10. \A s \in Runs : pc'[s] = "request" => todo'[s] = {}
      BY <2>1, <2>4, <2>5 DEF StartedOnce
    <2>11. \A d \in Calls \ Idempotent : executions'[d] <= 1
      BY <2>6, <2>8 DEF StartedOnce
    <2>12. \A d \in Calls \ Idempotent : d \notin Known(log)' => executions'[d] = 0
      BY <2>6, <2>7, <2>8 DEF StartedOnce
    <2>13. \A d \in Calls \ Idempotent, s \in Runs : Holds(s, d)' =>
             d \in Known(log)' /\ \A q \in Runs : Holds(q, d)' => q = s
      BY <2>3, <2>7 DEF StartedOnce
    <2> QED BY <2>3, <2>9, <2>10, <2>11, <2>12, <2>13 DEF StartedOnce
  <1>15. ASSUME NEW r \in Runs, RetryTool(r) PROVE StartedOnce'
    BY <1>15, StartedFrame DEF RetryTool, Execute, TypeOK, Known, Holds, Live, StartedOnce
  <1>16. ASSUME NEW r \in Runs, AppendResult(r) PROVE StartedOnce'
    <2>1. current[r] \in Calls BY <1>16 DEF AppendResult, TypeOK
    <2>2. Known(log)' = Known(log) BY <1>16, <2>1, KnownGrows, RecordTypes DEF AppendResult
    <2> QED
      BY <1>16, <2>2, StartedFrame DEF AppendResult, Goto, TypeOK, Holds, Live, StartedOnce
  <1>17. ASSUME NEW r \in Runs, NextIteration(r) PROVE StartedOnce'
    BY <1>17, StartedFrame DEF NextIteration, Goto, TypeOK, Known, Holds, Live, StartedOnce
  <1>18. ASSUME NEW r \in Runs, Stop(r) PROVE StartedOnce'
    BY <1>18, StartedFrame, EndHolds, EndRequest DEF Stop, Known
  <1>19. ASSUME NEW c \in Calls, LeaseExpires(c) PROVE StartedOnce'
    BY <1>19 DEF LeaseExpires, runVars, StartedOnce, Known, Holds, Live
  <1>20. CASE UNCHANGED vars BY <1>20 DEF vars, StartedOnce, Known, Holds, Live
  <1> QED
    BY <1>1, <1>2, <1>3, <1>4, <1>5, <1>6, <1>7, <1>8, <1>9, <1>10, <1>11, <1>12, <1>13,
       <1>14, <1>15, <1>16, <1>17, <1>18, <1>19, <1>20 DEF Next, Step

(* A tool that is not idempotent is started at most once for a call, for   *)
(* any number of runs that crash, retry, recover and overlap.              *)
THEOREM NeverTwice == Spec => []NonIdempotentOnce
PROOF
  <1>1. Init => TypeOK /\ StartedOnce BY InitType, InitStarted
  <1>2. TypeOK /\ StartedOnce /\ [Next]_vars => (TypeOK /\ StartedOnce)'
    BY StepType, StepStarted
  <1>3. StartedOnce => NonIdempotentOnce BY DEF StartedOnce, NonIdempotentOnce
  <1> QED BY <1>1, <1>2, <1>3, PTL DEF Spec

-----------------------------------------------------------------------------
(* The dialogue of runs that do not overlap.                               *)

(* A step of the one active run r: it is enough to look at the dialogue    *)
(* and at where r goes.                                                    *)
LEMMA SoloStep ==
  ASSUME TypeOK, DialogueInv, NEW r \in Runs, Active(r),
         \A s \in Runs : s # r => pc'[s] = pc[s],
         overlapped' = overlapped,
         ~overlapped => /\ Legal(log')
                        /\ pc'[r] \in {"recover", "claimed", "recovering", "tools", "invoked"} =>
                             Unanswered(log') \subseteq todo'[r]
                        /\ pc'[r] \in {"request", "stream"} => Unanswered(log') = {}
  PROVE  DialogueInv'
PROOF
  <1> SUFFICES ASSUME ~overlapped PROVE (Legal(log) /\ Accounted)' BY DEF DialogueInv
  <1>1. \A s \in Runs : s # r => pc'[s] \in {"idle", "ended"}
    BY DEF DialogueInv, Accounted, Active, TypeOK, Places
  <1>2. \A s, q \in Runs : Active(s)' /\ Active(q)' => s = q BY <1>1 DEF Active
  <1>3. ASSUME NEW s \in Runs
        PROVE  /\ pc'[s] \in {"recover", "claimed", "recovering", "tools", "invoked"} =>
                    Unanswered(log') \subseteq todo'[s]
               /\ pc'[s] \in {"request", "stream"} => Unanswered(log') = {}
    BY <1>1
  <1> QED BY <1>2, <1>3 DEF Accounted

(* The run ends, having appended nothing or an event that keeps the        *)
(* dialogue legal.                                                         *)
LEMMA SoloEnd ==
  ASSUME TypeOK, DialogueInv, NEW r \in Runs, Active(r), End(r), overlapped' = overlapped,
         ~overlapped => Legal(log')
  PROVE  DialogueInv'
PROOF
  <1>1. pc'[r] = "ended" /\ \A s \in Runs : s # r => pc'[s] = pc[s]
    BY DEF End, Goto, TypeOK
  <1> QED BY <1>1, SoloStep

LEMMA InitDialogue == Init => DialogueInv
PROOF
  <1> SUFFICES ASSUME Init PROVE DialogueInv OBVIOUS
  <1>1. Legal(log) BY DEF Init, Legal
  <1>2. \A r \in Runs : pc[r] = "idle" BY DEF Init
  <1>3. Accounted BY <1>2 DEF Accounted, Active
  <1> QED BY <1>1, <1>3 DEF DialogueInv

LEMMA StepDialogue == TypeOK /\ DialogueInv /\ [Next]_vars => DialogueInv'
PROOF
  <1> SUFFICES ASSUME TypeOK, DialogueInv, [Next]_vars PROVE DialogueInv' OBVIOUS
  <1>1. ASSUME NEW r \in Runs, Start(r) PROVE DialogueInv'
    <2> SUFFICES ASSUME ~overlapped' PROVE (Legal(log) /\ Accounted)' BY DEF DialogueInv
    <2>1. ~overlapped /\ \A s \in Runs : ~Active(s) BY <1>1 DEF Start, TypeOK
    <2>2. pc'[r] = "scan" /\ \A s \in Runs : s # r => pc'[s] = pc[s]
      BY <1>1 DEF Start, Goto, TypeOK
    <2>3. \A s \in Runs : s # r => pc'[s] \in {"idle", "ended"} BY <2>1, <2>2 DEF Active
    <2>4. Accounted' BY <2>2, <2>3 DEF Accounted, Active
    <2> QED BY <1>1, <2>1, <2>4 DEF Start, DialogueInv
  <1>2. ASSUME NEW r \in Runs, Scan(r) PROVE DialogueInv'
    <2>1. Active(r) /\ log' = log /\ overlapped' = overlapped BY <1>2 DEF Scan, Active
    <2>2. CASE End(r) BY <2>1, <2>2, SoloEnd DEF DialogueInv
    <2>3. CASE Goto(r, "recover") /\ todo' = [todo EXCEPT ![r] = PendingToolCalls(log)]
      <3>1. pc'[r] = "recover" /\ \A s \in Runs : s # r => pc'[s] = pc[s]
        BY <2>3 DEF Goto, TypeOK
      <3>2. Unanswered(log) \subseteq todo'[r] BY <2>3 DEF TypeOK, PendingToolCalls
      <3> QED BY <2>1, <3>1, <3>2, SoloStep DEF DialogueInv
    <2> QED BY <1>2, <2>2, <2>3 DEF Scan
  <1>3. ASSUME NEW r \in Runs, Claim(r) PROVE DialogueInv'
    <2>1. Active(r) /\ UNCHANGED <<log, todo, overlapped>> BY <1>3 DEF Claim, Active
    <2>2. /\ pc[r] = "recover" /\ pc'[r] = "claimed"
          /\ \A s \in Runs : s # r => pc'[s] = pc[s]
      BY <1>3 DEF Claim, Goto, TypeOK
    <2> QED BY <2>1, <2>2, SoloStep DEF DialogueInv, Accounted
  <1>4. ASSUME NEW r \in Runs, ClaimRefused(r) PROVE DialogueInv'
    BY <1>4, SoloEnd DEF ClaimRefused, Active, DialogueInv
  <1>5. ASSUME NEW r \in Runs, RecoverUnknown(r) PROVE DialogueInv'
    <2>1. /\ Active(r) /\ End(r) /\ overlapped' = overlapped
          /\ log' = Append(log, Rec("unknown", {current[r]}))
      BY <1>5 DEF RecoverUnknown, Active, Log
    <2>2. Rec("unknown", {current[r]}) \in Record
      BY <1>5, RecordTypes DEF RecoverUnknown, TypeOK
    <2>3. ~overlapped => Legal(log') BY <2>1, <2>2, LegalAppend DEF DialogueInv, TypeOK
    <2> QED BY <2>1, <2>3, SoloEnd
  <1>6. ASSUME NEW r \in Runs, RecoverExecute(r) PROVE DialogueInv'
    <2>1. Active(r) /\ UNCHANGED <<log, todo, overlapped>> BY <1>6 DEF RecoverExecute, Active
    <2>2. /\ pc[r] = "claimed" /\ pc'[r] = "recovering"
          /\ \A s \in Runs : s # r => pc'[s] = pc[s]
      BY <1>6 DEF RecoverExecute, Goto, TypeOK
    <2> QED BY <2>1, <2>2, SoloStep DEF DialogueInv, Accounted
  <1>7. ASSUME NEW r \in Runs, RecoverResult(r) PROVE DialogueInv'
    <2>1. /\ Active(r) /\ overlapped' = overlapped /\ pc[r] = "recovering"
          /\ log' = Append(log, Rec("result", {current[r]}))
          /\ todo'[r] = todo[r] \ {current[r]}
          /\ \A s \in Runs : s # r => pc'[s] = pc[s]
      BY <1>7 DEF RecoverResult, Active, Log, Goto, TypeOK
    <2>2. Rec("result", {current[r]}) \in Record
      BY <1>7, RecordTypes DEF RecoverResult, TypeOK
    <2>3. ~overlapped => Legal(log') BY <2>1, <2>2, LegalAppend DEF DialogueInv, TypeOK
    <2>4. Unanswered(log') \subseteq Unanswered(log) \ {current[r]}
      BY <2>1, <2>2, UnansweredAppend DEF TypeOK, Answers
    <2>5. pc'[r] = "recover" BY <1>7 DEF RecoverResult, Goto, TypeOK
    <2>6. ~overlapped => Unanswered(log) \subseteq todo[r] BY <2>1 DEF DialogueInv, Accounted
    <2> QED BY <2>1, <2>3, <2>4, <2>5, <2>6, SoloStep
  <1>8. ASSUME NEW r \in Runs, AppendUser(r) PROVE DialogueInv'
    <2>1. /\ Active(r) /\ overlapped' = overlapped /\ pc[r] = "recover" /\ todo[r] = {}
          /\ log' = Append(log, Rec("user", {}))
          /\ pc'[r] = "request" /\ \A s \in Runs : s # r => pc'[s] = pc[s]
      BY <1>8 DEF AppendUser, Active, Log, Goto, TypeOK
    <2>2. ~overlapped => Unanswered(log) = {} BY <2>1 DEF DialogueInv, Accounted
    <2>3. ~overlapped => Legal(log')
      BY <2>1, <2>2, RecordTypes, LegalAppend DEF DialogueInv, TypeOK
    <2>4. Unanswered(log') \subseteq Unanswered(log)
      BY <2>1, RecordTypes, UnansweredAppend DEF TypeOK, Answers
    <2> QED BY <2>1, <2>2, <2>3, <2>4, SoloStep
  <1>9. ASSUME NEW r \in Runs, Request(r) PROVE DialogueInv'
    <2>1. Active(r) /\ UNCHANGED <<log, overlapped>> /\ pc[r] = "request"
      BY <1>9 DEF Request, Active
    <2>2. CASE End(r) BY <2>1, <2>2, SoloEnd DEF DialogueInv
    <2>3. CASE Goto(r, "stream")
      <3>1. pc'[r] = "stream" /\ \A s \in Runs : s # r => pc'[s] = pc[s]
        BY <2>3 DEF Goto, TypeOK
      <3> QED BY <2>1, <3>1, SoloStep DEF DialogueInv, Accounted
    <2> QED BY <1>9, <2>2, <2>3 DEF Request
  <1>10. ASSUME NEW r \in Runs, StreamDelta(r) PROVE DialogueInv'
    <2>1. PICK c \in Calls, kind \in {"opening", "delta"} : log' = Append(log, Rec(kind, {c}))
      BY <1>10 DEF StreamDelta, Log
    <2>2. Active(r) /\ overlapped' = overlapped /\ pc[r] = "stream" /\ pc' = pc
      BY <1>10 DEF StreamDelta, Active
    <2>3. Rec(kind, {c}) \in Record BY RecordTypes
    <2>4. ~overlapped => Legal(log') BY <2>1, <2>3, LegalAppend DEF DialogueInv, TypeOK
    <2>5. Unanswered(log') \subseteq Unanswered(log)
      BY <2>1, <2>3, UnansweredAppend DEF TypeOK, Answers
    <2>6. ~overlapped => Unanswered(log) = {} BY <2>2 DEF DialogueInv, Accounted
    <2> QED BY <2>2, <2>4, <2>5, <2>6, SoloStep
  <1>11. ASSUME NEW r \in Runs, RetryModel(r) PROVE DialogueInv'
    <2>1. Active(r) /\ UNCHANGED <<log, overlapped, pc>> /\ pc[r] = "stream"
      BY <1>11 DEF RetryModel, Active
    <2> QED BY <2>1, SoloStep DEF DialogueInv, Accounted
  <1>12. ASSUME NEW r \in Runs, Answer(r) PROVE DialogueInv'
    <2>1. /\ Active(r) /\ overlapped' = overlapped /\ pc[r] = "stream"
          /\ log' = Append(log, Rec("assistant", {}))
      BY <1>12 DEF Answer, Active, Log
    <2>2. ~overlapped => Unanswered(log) = {} BY <2>1 DEF DialogueInv, Accounted
    <2>3. ~overlapped => Legal(log')
      BY <2>1, <2>2, RecordTypes, LegalAppend DEF DialogueInv, TypeOK
    <2>4. Unanswered(log') \subseteq Unanswered(log)
      BY <2>1, RecordTypes, UnansweredAppend DEF TypeOK
    <2>5. CASE End(r) BY <2>1, <2>3, <2>5, SoloEnd
    <2>6. CASE Goto(r, "request")
      <3>1. pc'[r] = "request" /\ \A s \in Runs : s # r => pc'[s] = pc[s]
        BY <2>6 DEF Goto, TypeOK
      <3> QED BY <2>1, <2>2, <2>3, <2>4, <3>1, SoloStep
    <2> QED BY <1>12, <2>5, <2>6 DEF Answer
  <1>13. ASSUME NEW r \in Runs, AppendAssistant(r) PROVE DialogueInv'
    <2>1. /\ Active(r) /\ overlapped' = overlapped /\ pc[r] = "stream"
          /\ log' = Append(log, Rec("assistant", todo[r])) /\ todo' = todo
          /\ pc'[r] = "tools" /\ \A s \in Runs : s # r => pc'[s] = pc[s]
      BY <1>13 DEF AppendAssistant, Active, Log, Goto, TypeOK
    <2>2. ~overlapped => Unanswered(log) = {} BY <2>1 DEF DialogueInv, Accounted
    <2>3. Rec("assistant", todo[r]) \in Record BY RecordTypes DEF TypeOK
    <2>4. ~overlapped => Legal(log')
      BY <2>1, <2>2, <2>3, LegalAppend DEF DialogueInv, TypeOK
    <2>5. Unanswered(log') \subseteq Unanswered(log) \union todo[r]
      BY <2>1, <2>3, UnansweredAppend DEF TypeOK
    <2> QED BY <2>1, <2>2, <2>4, <2>5, SoloStep
  <1>14. ASSUME NEW r \in Runs, Invoke(r) PROVE DialogueInv'
    <2>1. Active(r) /\ UNCHANGED <<log, todo, overlapped>> BY <1>14 DEF Invoke, Active
    <2>2. /\ pc[r] = "tools" /\ pc'[r] = "invoked"
          /\ \A s \in Runs : s # r => pc'[s] = pc[s]
      BY <1>14 DEF Invoke, Goto, TypeOK
    <2> QED BY <2>1, <2>2, SoloStep DEF DialogueInv, Accounted
  <1>15. ASSUME NEW r \in Runs, RetryTool(r) PROVE DialogueInv'
    <2>1. Active(r) /\ UNCHANGED <<log, overlapped, pc, todo>> BY <1>15 DEF RetryTool, Active
    <2> QED BY <2>1, SoloStep DEF DialogueInv, Accounted
  <1>16. ASSUME NEW r \in Runs, AppendResult(r) PROVE DialogueInv'
    <2>1. /\ Active(r) /\ overlapped' = overlapped /\ pc[r] = "invoked"
          /\ log' = Append(log, Rec("result", {current[r]}))
          /\ todo'[r] = todo[r] \ {current[r]}
          /\ \A s \in Runs : s # r => pc'[s] = pc[s]
      BY <1>16 DEF AppendResult, Active, Log, Goto, TypeOK
    <2>2. Rec("result", {current[r]}) \in Record
      BY <1>16, RecordTypes DEF AppendResult, TypeOK
    <2>3. ~overlapped => Legal(log') BY <2>1, <2>2, LegalAppend DEF DialogueInv, TypeOK
    <2>4. Unanswered(log') \subseteq Unanswered(log) \ {current[r]}
      BY <2>1, <2>2, UnansweredAppend DEF TypeOK, Answers
    <2>5. pc'[r] = "tools" BY <1>16 DEF AppendResult, Goto, TypeOK
    <2>6. ~overlapped => Unanswered(log) \subseteq todo[r] BY <2>1 DEF DialogueInv, Accounted
    <2> QED BY <2>1, <2>3, <2>4, <2>5, <2>6, SoloStep
  <1>17. ASSUME NEW r \in Runs, NextIteration(r) PROVE DialogueInv'
    <2>1. Active(r) /\ UNCHANGED <<log, overlapped>> /\ pc[r] = "tools" /\ todo[r] = {}
      BY <1>17 DEF NextIteration, Active
    <2>2. pc'[r] = "request" /\ \A s \in Runs : s # r => pc'[s] = pc[s]
      BY <1>17 DEF NextIteration, Goto, TypeOK
    <2> QED BY <2>1, <2>2, SoloStep DEF DialogueInv, Accounted
  <1>18. ASSUME NEW r \in Runs, Stop(r) PROVE DialogueInv'
    BY <1>18, SoloEnd DEF Stop, DialogueInv
  <1>19. ASSUME NEW c \in Calls, LeaseExpires(c) PROVE DialogueInv'
    BY <1>19 DEF LeaseExpires, runVars, DialogueInv, Accounted, Active
  <1>20. CASE UNCHANGED vars BY <1>20 DEF vars, DialogueInv, Accounted, Active
  <1> QED
    BY <1>1, <1>2, <1>3, <1>4, <1>5, <1>6, <1>7, <1>8, <1>9, <1>10, <1>11, <1>12, <1>13,
       <1>14, <1>15, <1>16, <1>17, <1>18, <1>19, <1>20 DEF Next, Step

(* As long as runs do not overlap, every user message and every response   *)
(* comes after the results of all calls announced before it, wherever the  *)
(* runs before it stopped.                                                 *)
THEOREM DialogueStaysLegal == Spec => []LegalDialogue
PROOF
  <1>1. Init => IInv BY InitType, InitStarted, InitDialogue DEF IInv
  <1>2. IInv /\ [Next]_vars => IInv' BY StepType, StepStarted, StepDialogue DEF IInv
  <1>3. IInv => LegalDialogue BY DEF IInv, DialogueInv, LegalDialogue
  <1> QED BY <1>1, <1>2, <1>3, PTL DEF Spec

-----------------------------------------------------------------------------
(* What a run's list and the log have to do with each other.               *)

Announced(l) == Carried(l, {"assistant"})
Streamed(l) == Carried(l, {"delta"})

ListOf(r) ==
  /\ pc[r] \in {"recover", "claimed", "recovering"} =>
       todo[r] \subseteq Announced(log) \union Streamed(log)
  /\ pc[r] = "stream" => todo[r] \subseteq Known(log)
  /\ pc[r] \in {"tools", "invoked"} => todo[r] \subseteq Announced(log)

ListInv ==
  /\ \A r \in Runs : ListOf(r)
  /\ Answered(log) \subseteq Known(log)
  /\ UnannouncedIsLeftover

Acts(q) == Start(q) \/ Step(q) \/ Stop(q)

LEMMA OthersStay ==
  ASSUME TypeOK, NEW q \in Runs, Acts(q), NEW r \in Runs, r # q
  PROVE  pc'[r] = pc[r] /\ todo'[r] = todo[r] /\ current'[r] = current[r]
BY DEF Acts, Start, Step, Stop, Scan, Claim, ClaimRefused, RecoverUnknown, RecoverExecute,
       RecoverResult, AppendUser, Request, StreamDelta, RetryModel, Answer, AppendAssistant,
       Invoke, RetryTool, AppendResult, NextIteration, Goto, End, TypeOK

(* The one record a step may append.                                       *)
LEMMA StepAppends ==
  ASSUME TypeOK, NEW q \in Runs, Acts(q)
  PROVE  \/ log' = log
         \/ Log("user", {}) /\ AppendUser(q)
         \/ \E c \in Calls, kind \in {"opening", "delta"} : Log(kind, {c}) /\ StreamDelta(q)
         \/ Log("assistant", {}) /\ Answer(q)
         \/ Log("assistant", todo[q]) /\ AppendAssistant(q)
         \/ /\ current[q] \in todo[q] /\ current[q] \in Calls
            /\ \/ Log("unknown", {current[q]}) /\ RecoverUnknown(q)
               \/ Log("result", {current[q]}) /\ (RecoverResult(q) \/ AppendResult(q))
<1>1. pc[q] \in {"claimed", "recovering", "invoked"} =>
        current[q] \in todo[q] /\ current[q] \in Calls
  BY DEF TypeOK
<1>2. CASE AppendUser(q) \/ StreamDelta(q) \/ Answer(q) \/ AppendAssistant(q)
  BY <1>2 DEF AppendUser, StreamDelta, Answer, AppendAssistant
<1>3. CASE RecoverUnknown(q) \/ RecoverResult(q) \/ AppendResult(q)
  BY <1>1, <1>3 DEF RecoverUnknown, RecoverResult, AppendResult
<1>4. QED
  BY <1>2, <1>3
  DEF Acts, Start, Step, Stop, Scan, Claim, ClaimRefused, RecoverExecute, Request,
      RetryModel, Invoke, RetryTool, NextIteration

LEMMA LogGrows ==
  ASSUME TypeOK, NEW q \in Runs, Acts(q), NEW kinds
  PROVE  Carried(log, kinds) \subseteq Carried(log', kinds)
<1>1. ASSUME NEW k, NEW S, Rec(k, S) \in Record, Log(k, S)
      PROVE  Carried(log, kinds) \subseteq Carried(log', kinds)
  BY <1>1, CarriedAppend DEF Log, TypeOK
<1>2. todo[q] \subseteq Calls
  BY DEF TypeOK
<1>3. QED
  BY <1>1, <1>2, StepAppends, RecordTypes

LEMMA KnownParts ==
  ASSUME NEW l \in Seq(Record)
  PROVE  Announced(l) \subseteq Known(l) /\ Streamed(l) \subseteq Known(l)
BY DEF Announced, Streamed, Known, Carried

(* The acting run: its list is what it read, streamed or announced.        *)
LEMMA ListActor ==
  ASSUME TypeOK, StartedOnce, ListInv, NEW q \in Runs, Acts(q)
  PROVE  ListOf(q)'
<1>1. /\ Announced(log) \subseteq Announced(log') /\ Streamed(log) \subseteq Streamed(log')
      /\ Known(log) \subseteq Known(log')
  BY LogGrows DEF Announced, Streamed, Known
<1>2. ListOf(q)
  BY DEF ListInv
<1>3. CASE End(q) \/ Start(q)
  BY <1>3 DEF End, Start, Goto, ListOf, TypeOK
<1>4. CASE /\ Scan(q) /\ Goto(q, "recover")
           /\ todo' = [todo EXCEPT ![q] = PendingToolCalls(log)]
  <2>1. PendingToolCalls(log) \subseteq Announced(log) \union Streamed(log)
    BY DEF PendingToolCalls, Unanswered, Announced, Streamed, Carried
  <2>2. QED
    BY <1>1, <1>4, <2>1 DEF ListOf, Goto, TypeOK
<1>5. CASE Claim(q) \/ RecoverExecute(q)
  BY <1>1, <1>2, <1>5 DEF Claim, RecoverExecute, Goto, ListOf, TypeOK
<1>6. CASE RecoverResult(q)
  BY <1>1, <1>2, <1>6 DEF RecoverResult, Goto, ListOf, TypeOK
<1>7. CASE pc'[q] = "request"
  BY <1>7 DEF ListOf
<1>8. CASE Request(q) /\ Goto(q, "stream") /\ UNCHANGED todo
  BY <1>8 DEF Request, Goto, ListOf, TypeOK, StartedOnce
<1>9. CASE StreamDelta(q)
  <2>1. PICK c \in Calls, kind \in {"opening", "delta"} :
          Log(kind, {c}) /\ todo' = [todo EXCEPT ![q] = @ \union {c}]
    BY <1>9 DEF StreamDelta
  <2>2. c \in Known(log')
    BY <2>1, KnownGrows, RecordTypes
  <2>3. pc[q] = "stream" /\ pc' = pc
    BY <1>9 DEF StreamDelta
  <2>4. QED
    BY <1>1, <1>2, <2>1, <2>2, <2>3 DEF ListOf, TypeOK
<1>10. CASE RetryModel(q)
  BY <1>10 DEF RetryModel, ListOf, TypeOK
<1>11. CASE AppendAssistant(q)
  <2>1. todo[q] \in SUBSET Calls
    BY DEF TypeOK
  <2>2. Announced(log') = Announced(log) \union todo[q]
    <3>1. /\ log' = Append(log, Rec("assistant", todo[q])) /\ log \in Seq(Record)
          /\ Rec("assistant", todo[q]) \in Record
      BY <1>11, <2>1, RecordTypes DEF AppendAssistant, Log, TypeOK
    <3>2. QED
      BY <3>1, CarriedAppend DEF Announced
  <2>3. QED
    BY <1>11, <2>2 DEF AppendAssistant, Goto, ListOf, TypeOK
<1>12. CASE Invoke(q) \/ RetryTool(q) \/ AppendResult(q)
  BY <1>1, <1>2, <1>12 DEF Invoke, RetryTool, AppendResult, Goto, ListOf, TypeOK
<1>13. CASE AppendUser(q) \/ NextIteration(q) \/ (Answer(q) /\ ~End(q))
  BY <1>7, <1>13 DEF AppendUser, NextIteration, Answer, Goto, TypeOK
<1>14. QED
  BY <1>3, <1>4, <1>5, <1>6, <1>8, <1>9, <1>10, <1>11, <1>12, <1>13
  DEF Acts, Step, Stop, Scan, ClaimRefused, RecoverUnknown, Request, Answer

(* An answer is about a call on a list, and so about a known one.          *)
LEMMA AnswersKnown ==
  ASSUME TypeOK, ListInv, NEW q \in Runs, Acts(q)
  PROVE  Answered(log') \subseteq Known(log')
<1>1. Known(log) \subseteq Known(log') /\ Answered(log) \subseteq Known(log)
  BY LogGrows DEF Known, ListInv
<1>2. ASSUME NEW k, NEW S, Rec(k, S) \in Record, Log(k, S), k \notin Answers
      PROVE  Answered(log') \subseteq Known(log')
  BY <1>1, <1>2, CarriedAppend DEF Log, Answered, TypeOK
<1>3. ASSUME NEW k, current[q] \in Calls, Rec(k, {current[q]}) \in Record,
             Log(k, {current[q]}), current[q] \in todo[q],
             pc[q] \in {"claimed", "recovering", "invoked"}
      PROVE  Answered(log') \subseteq Known(log')
  <2>1. current[q] \in Announced(log) \union Streamed(log)
    BY <1>3 DEF ListInv, ListOf
  <2>2. current[q] \in Known(log)
    BY <2>1, KnownParts DEF TypeOK
  <2>3. Answered(log') \subseteq Answered(log) \union {current[q]}
    BY <1>3, CarriedAppend DEF Log, Answered, TypeOK
  <2>4. QED
    BY <1>1, <2>2, <2>3
<1>4. "user" \notin Answers /\ "assistant" \notin Answers /\ "delta" \notin Answers
      /\ "opening" \notin Answers
  BY DEF Answers
<1>5. todo[q] \in SUBSET Calls
  BY DEF TypeOK
<1>6. CASE log' = log
  BY <1>1, <1>6
<1>7. CASE RecoverUnknown(q) \/ RecoverResult(q) \/ AppendResult(q)
  BY <1>3, <1>7, RecordTypes DEF RecoverUnknown, RecoverResult, AppendResult, TypeOK
<1>8. QED
  BY <1>2, <1>4, <1>5, <1>6, <1>7, StepAppends, RecordTypes

(* A tool is started for a call on a list that was announced, or that is a *)
(* leftover whose tool is idempotent.                                      *)
LEMMA StartsListed ==
  ASSUME TypeOK, ListInv, NEW q \in Runs, Acts(q)
  PROVE  UnannouncedIsLeftover'
<1>1. Announced(log) \subseteq Announced(log') /\ Streamed(log) \subseteq Streamed(log')
  BY LogGrows DEF Announced, Streamed
<1>2. ASSUME NEW c \in Calls, Execute(c),
             c \in Announced(log) \/ (c \in Idempotent /\ c \in Streamed(log))
      PROVE  UnannouncedIsLeftover'
  BY <1>1, <1>2 DEF ListInv, UnannouncedIsLeftover, Announced, Streamed, Execute, TypeOK
<1>3. CASE RecoverExecute(q)
  <2>1. current[q] \in todo[q] /\ current[q] \in Calls /\ current[q] \in Idempotent
    BY <1>3 DEF RecoverExecute, TypeOK
  <2>2. current[q] \in Announced(log) \union Streamed(log)
    BY <1>3, <2>1 DEF RecoverExecute, ListInv, ListOf
  <2>3. QED
    BY <1>2, <1>3, <2>1, <2>2 DEF RecoverExecute
<1>4. CASE Invoke(q)
  <2>1. PICK c \in todo[q] : pc[q] = "tools" /\ Execute(c)
    BY <1>4 DEF Invoke
  <2>2. c \in Calls /\ c \in Announced(log)
    BY <2>1 DEF ListInv, ListOf, TypeOK
  <2>3. QED
    BY <1>2, <2>1, <2>2
<1>5. CASE RetryTool(q)
  <2>1. current[q] \in todo[q] /\ current[q] \in Calls
    BY <1>5 DEF RetryTool, TypeOK
  <2>2. current[q] \in Announced(log)
    BY <1>5, <2>1 DEF RetryTool, ListInv, ListOf
  <2>3. QED
    BY <1>2, <1>5, <2>1, <2>2 DEF RetryTool
<1>6. CASE UNCHANGED executions
  BY <1>1, <1>6 DEF ListInv, UnannouncedIsLeftover, Announced, Streamed
<1>7. QED
  BY <1>3, <1>4, <1>5, <1>6
  DEF Acts, Start, Step, Stop, Scan, Claim, ClaimRefused, RecoverUnknown,
      RecoverResult, AppendUser, Request, StreamDelta, RetryModel, Answer, AppendAssistant,
      AppendResult, NextIteration

LEMMA InitList == Init => ListInv
BY DEF Init, ListInv, ListOf, UnannouncedIsLeftover, Answered, Carried

LEMMA StepList == TypeOK /\ StartedOnce /\ ListInv /\ [Next]_vars => ListInv'
<1> SUFFICES ASSUME TypeOK, StartedOnce, ListInv, [Next]_vars PROVE ListInv'
  OBVIOUS
<1>1. ASSUME NEW q \in Runs, Acts(q) PROVE ListInv'
  <2>1. ASSUME NEW r \in Runs, r # q PROVE ListOf(r)'
    <3>1. /\ Announced(log) \subseteq Announced(log') /\ Streamed(log) \subseteq Streamed(log')
          /\ Known(log) \subseteq Known(log')
      BY <1>1, LogGrows DEF Announced, Streamed, Known
    <3>2. pc'[r] = pc[r] /\ todo'[r] = todo[r] /\ ListOf(r)
      BY <1>1, <2>1, OthersStay DEF ListInv
    <3>3. QED
      BY <3>1, <3>2 DEF ListOf
  <2>2. ListOf(q)'
    BY <1>1, ListActor
  <2>3. \A r \in Runs : ListOf(r)'
    BY <2>1, <2>2
  <2>4. Answered(log)' \subseteq Known(log)' /\ UnannouncedIsLeftover'
    BY <1>1, AnswersKnown, StartsListed
  <2>5. QED
    BY <2>3, <2>4 DEF ListInv
<1>2. ASSUME NEW c \in Calls, LeaseExpires(c) PROVE ListInv'
  BY <1>2 DEF LeaseExpires, runVars, ListInv, ListOf, UnannouncedIsLeftover
<1>3. CASE UNCHANGED vars
  BY <1>3 DEF vars, ListInv, ListOf, UnannouncedIsLeftover
<1>4. QED
  BY <1>1, <1>2, <1>3 DEF Next, Acts

(* The log names a call before its tool is started: in the announcement,   *)
(* or, for a leftover that recovery may repeat, in its complete deltas.    *)
THEOREM StartedIsNamed == Spec => []UnannouncedIsLeftover
PROOF
  <1>1. Init => TypeOK /\ StartedOnce /\ ListInv BY InitType, InitStarted, InitList
  <1>2. TypeOK /\ StartedOnce /\ ListInv /\ [Next]_vars => (TypeOK /\ StartedOnce /\ ListInv)'
    BY StepType, StepStarted, StepList
  <1>3. ListInv => UnannouncedIsLeftover BY DEF ListInv
  <1> QED BY <1>1, <1>2, <1>3, PTL DEF Spec

-----------------------------------------------------------------------------
(* Calls are settled once.                                                 *)

(* A run is at work on a call: it streamed or announced it and has yet to  *)
(* settle it, or it has claimed it.                                        *)
Serving(r, c) == Holds(r, c) \/ (Recovering(r) /\ current[r] = c)

(* A call nobody took from another run is in one run's hands at most, has  *)
(* no result by then, and is leased if a recovery has it.                  *)
ServedOnce ==
  \A c \in Calls \ stolen :
    /\ \A r \in Runs : Serving(r, c) =>
         c \notin Answered(log) /\ (Recovering(r) => c \in leased)
    /\ \A r, s \in Runs : Serving(r, c) /\ Serving(s, c) => r = s

ServeInv == ServedOnce /\ OneResult

LEMMA ServingKnown ==
  ASSUME TypeOK, ListInv, NEW r \in Runs, NEW c, Serving(r, c)
  PROVE  c \in Calls /\ c \in Known(log)
<1>1. c \in todo[r] /\ todo[r] \subseteq Calls
  BY DEF Serving, Holds, Recovering, TypeOK
<1>2. todo[r] \subseteq Known(log) \union Announced(log) \union Streamed(log)
  BY DEF Serving, Holds, Recovering, Live, ListInv, ListOf
<1>3. QED
  BY <1>1, <1>2, KnownParts DEF TypeOK

(* How the acting run comes to serve a call.                               *)
LEMMA ServeActor ==
  ASSUME TypeOK, StartedOnce, ListInv, NEW q \in Runs, Acts(q),
         NEW c \in Calls \ stolen', Serving(q, c)', ServedOnce
  PROVE  \/ Serving(q, c) /\ (Recovering(q)' => Recovering(q))
         \/ /\ \A r \in Runs : ~Serving(r, c)
            /\ c \notin Answered(log) /\ (Recovering(q)' => c \in leased')
<1>1. ~End(q) /\ pc'[q] \notin {"scan", "recover", "request"}
  BY DEF End, Goto, Serving, Holds, Live, Recovering, TypeOK
<1>2. CASE Claim(q)
  <2>1. PICK d \in todo[q] :
          /\ Claimable(d) /\ leased' = leased \union {d}
          /\ current' = [current EXCEPT ![q] = d] /\ Goto(q, "claimed")
          /\ stolen' = IF \E s \in Runs : Live(s) /\ d \in todo[s]
                       THEN stolen \union {d} ELSE stolen
    BY <1>2 DEF Claim
  <2>2. pc'[q] = "claimed" /\ current'[q] = d
    BY <2>1 DEF Goto, TypeOK
  <2>3. c = d
    BY <2>2 DEF Serving, Holds, Live
  <2>4. c \notin stolen /\ ~\E s \in Runs : Live(s) /\ d \in todo[s]
    BY <2>1, <2>3
  <2>5. ASSUME NEW r \in Runs, Serving(r, c) PROVE FALSE
    <3>1. Recovering(r)
      BY <2>3, <2>4, <2>5 DEF Serving, Holds
    <3>2. c \in leased
      BY <2>4, <2>5, <3>1 DEF ServedOnce
    <3>3. QED
      BY <2>1, <2>3, <3>2 DEF Claimable
  <2>6. QED
    BY <2>1, <2>3, <2>5 DEF Claimable
<1>3. CASE RecoverExecute(q)
  BY <1>3 DEF RecoverExecute, Goto, Serving, Holds, Live, Recovering, TypeOK
<1>4. CASE Request(q)
  <2>1. pc'[q] = "stream" /\ todo'[q] = {}
    BY <1>1, <1>4 DEF Request, Goto, TypeOK, StartedOnce
  <2>2. QED
    BY <2>1 DEF Serving, Holds, Recovering
<1>5. CASE StreamDelta(q)
  <2>1. PICK d \in Calls : /\ d \notin Known(log) \/ d \in todo[q]
                           /\ todo' = [todo EXCEPT ![q] = @ \union {d}]
    BY <1>5 DEF StreamDelta
  <2>2. pc[q] = "stream" /\ pc'[q] = "stream" /\ todo'[q] = todo[q] \union {d}
    BY <1>5, <2>1 DEF StreamDelta, TypeOK
  <2>3. c \in todo[q] \union {d}
    BY <2>2 DEF Serving, Holds, Recovering
  <2>4. CASE c \in todo[q]
    BY <2>2, <2>4 DEF Serving, Holds, Live, Recovering
  <2>5. CASE c \notin Known(log)
    BY <2>2, <2>5, ServingKnown DEF ListInv, Recovering
  <2>6. QED
    BY <2>1, <2>3, <2>4, <2>5
<1>6. CASE RetryModel(q)
  <2>1. pc'[q] = "stream" /\ todo'[q] = {}
    BY <1>6 DEF RetryModel, TypeOK
  <2>2. QED
    BY <2>1 DEF Serving, Holds, Recovering
<1>7. CASE AppendAssistant(q) \/ Invoke(q) \/ RetryTool(q)
  BY <1>7 DEF AppendAssistant, Invoke, RetryTool, Goto, Serving, Holds, Live, Recovering, TypeOK
<1>8. CASE AppendResult(q)
  BY <1>8 DEF AppendResult, Goto, Serving, Holds, Live, Recovering, TypeOK
<1>9. ~(Start(q) \/ RecoverResult(q) \/ AppendUser(q) \/ NextIteration(q))
  BY <1>1 DEF Start, RecoverResult, AppendUser, NextIteration, Goto, TypeOK
<1>10. ~(Scan(q) \/ ClaimRefused(q) \/ RecoverUnknown(q) \/ Answer(q) \/ Stop(q))
  BY <1>1 DEF Scan, ClaimRefused, RecoverUnknown, Answer, Stop, Goto, TypeOK
<1>11. QED
  BY <1>2, <1>3, <1>4, <1>5, <1>6, <1>7, <1>8, <1>9, <1>10 DEF Acts, Step

(* An answer is about a call the acting run serves, and no longer serves   *)
(* afterwards.                                                             *)
LEMMA AnswerActor ==
  ASSUME TypeOK, NEW q \in Runs, Acts(q)
  PROVE  \/ /\ Answered(log') = Answered(log)
            /\ OneResult => \A c \in Calls \ stolen, i, j \in DOMAIN log' :
                 log'[i].kind \in Answers /\ log'[j].kind \in Answers
                   /\ c \in log'[i].calls /\ c \in log'[j].calls => i = j
         \/ \E d \in Calls, k \in Answers :
              Log(k, {d}) /\ Serving(q, d) /\ ~Serving(q, d)'
<1>1. CASE RecoverUnknown(q) \/ RecoverResult(q) \/ AppendResult(q)
  <2>1. current[q] \in todo[q] /\ current[q] \in Calls
    BY <1>1 DEF RecoverUnknown, RecoverResult, AppendResult, TypeOK
  <2>2. \E k \in Answers : Log(k, {current[q]})
    BY <1>1 DEF RecoverUnknown, RecoverResult, AppendResult, Answers
  <2>3. Serving(q, current[q])
    BY <1>1, <2>1
    DEF RecoverUnknown, RecoverResult, AppendResult, Serving, Holds, Live, Recovering
  <2>4. pc'[q] \in {"ended", "recover"} \/ (pc'[q] = "tools" /\ current[q] \notin todo'[q])
    BY <1>1, <2>1 DEF RecoverUnknown, RecoverResult, AppendResult, End, Goto, TypeOK
  <2>5. QED
    BY <2>1, <2>2, <2>3, <2>4 DEF Serving, Holds, Live, Recovering
<1>2. ASSUME NEW k, NEW S, Rec(k, S) \in Record, Log(k, S), k \notin Answers
      PROVE  /\ Answered(log') = Answered(log)
             /\ OneResult => \A c \in Calls \ stolen, i, j \in DOMAIN log' :
                  log'[i].kind \in Answers /\ log'[j].kind \in Answers
                    /\ c \in log'[i].calls /\ c \in log'[j].calls => i = j
  <2> DEFINE rec == Rec(k, S)
  <2>0. log' = Append(log, rec) /\ rec \in Record /\ log \in Seq(Record)
    BY <1>2 DEF Log, TypeOK
  <2>1. Answered(log') = Answered(log)
    <3>1. Carried(Append(log, Rec(k, S)), Answers)
            = Carried(log, Answers) \union (IF k \in Answers THEN S ELSE {})
      BY <1>2, <2>0, CarriedAppend
    <3>2. QED
      BY <1>2, <2>0, <3>1 DEF Answered
  <2>2. /\ DOMAIN log' = DOMAIN log \union {Len(log) + 1}
        /\ \A i \in DOMAIN log : log'[i] = log[i]
        /\ log'[Len(log) + 1].kind = k
    BY <2>0, AppendFacts
  <2>3. QED
    BY <1>2, <2>1, <2>2 DEF OneResult
<1>3. "user" \notin Answers /\ "assistant" \notin Answers /\ "delta" \notin Answers
      /\ "opening" \notin Answers
  BY DEF Answers
<1>4. todo[q] \in SUBSET Calls
  BY DEF TypeOK
<1>5. CASE log' = log
  BY <1>5 DEF OneResult
<1>6. QED
  BY <1>1, <1>2, <1>3, <1>4, <1>5, StepAppends, RecordTypes

LEMMA StolenGrows ==
  ASSUME NEW q \in Runs, Acts(q)
  PROVE  stolen \subseteq stolen' /\ leased \subseteq leased'
BY DEF Acts, Start, Step, Stop, Scan, Claim, ClaimRefused, RecoverUnknown, RecoverExecute,
       RecoverResult, AppendUser, Request, StreamDelta, RetryModel, Answer, AppendAssistant,
       Invoke, RetryTool, AppendResult, NextIteration

LEMMA ServeStep ==
  ASSUME TypeOK, StartedOnce, ListInv, ServeInv, NEW q \in Runs, Acts(q)
  PROVE  ServeInv'
<1>1. stolen \subseteq stolen' /\ leased \subseteq leased'
  BY StolenGrows
<1>2. ASSUME NEW r \in Runs, r # q, NEW c
      PROVE  (Serving(r, c)' <=> Serving(r, c)) /\ (Recovering(r)' <=> Recovering(r))
  BY <1>2, OthersStay DEF Serving, Holds, Live, Recovering
<1>3. ASSUME NEW c \in Calls \ stolen', NEW r \in Runs, Serving(r, c)'
      PROVE  /\ c \notin Answered(log) /\ (Recovering(r)' => c \in leased')
             /\ \A s \in Runs : Serving(s, c)' => s = r
  <2>1. c \in Calls \ stolen
    BY <1>1
  <2>2. /\ \A s \in Runs : Serving(s, c) =>
             c \notin Answered(log) /\ (Recovering(s) => c \in leased)
        /\ \A s, t \in Runs : Serving(s, c) /\ Serving(t, c) => s = t
    BY <2>1 DEF ServeInv, ServedOnce
  <2>3. Serving(q, c)' =>
          \/ Serving(q, c) /\ (Recovering(q)' => Recovering(q))
          \/ /\ \A s \in Runs : ~Serving(s, c)
             /\ c \notin Answered(log) /\ (Recovering(q)' => c \in leased')
    BY <1>3, ServeActor DEF ServeInv
  <2>4. QED
    BY <1>1, <1>2, <1>3, <2>2, <2>3
<1>4. CASE /\ Answered(log') = Answered(log)
           /\ OneResult => \A c \in Calls \ stolen, i, j \in DOMAIN log' :
                log'[i].kind \in Answers /\ log'[j].kind \in Answers
                  /\ c \in log'[i].calls /\ c \in log'[j].calls => i = j
  <2>1. OneResult'
    BY <1>1, <1>4 DEF ServeInv, OneResult
  <2>2. ServedOnce'
    BY <1>3, <1>4 DEF ServedOnce
  <2>3. QED
    BY <2>1, <2>2 DEF ServeInv
<1>5. ASSUME NEW d \in Calls, NEW k \in Answers,
             Log(k, {d}), Serving(q, d), ~Serving(q, d)'
      PROVE  ServeInv'
  <2>1. Rec(k, {d}) \in Record /\ log \in Seq(Record)
    BY RecordTypes DEF Answers, TypeOK
  <2>2. Answered(log') = Answered(log) \union {d}
    BY <1>5, <2>1, CarriedAppend DEF Log, Answered
  <2>3. d \notin stolen => d \notin Answered(log)
    BY <1>5 DEF ServeInv, ServedOnce
  <2>4. ASSUME NEW r \in Runs, d \notin stolen', Serving(r, d)' PROVE FALSE
    <3>1. r # q /\ Serving(r, d) /\ d \notin stolen
      BY <1>1, <1>2, <1>5, <2>4
    <3>2. QED
      BY <1>5, <3>1 DEF ServeInv, ServedOnce
  <2>5. ServedOnce'
    BY <1>3, <2>2, <2>4 DEF ServedOnce
  <2>6. /\ DOMAIN log' = DOMAIN log \union {Len(log) + 1}
        /\ \A i \in DOMAIN log : log'[i] = log[i]
        /\ log'[Len(log) + 1].calls = {d}
    <3>1. log' = Append(log, Rec(k, {d}))
      BY <1>5 DEF Log
    <3>2. /\ DOMAIN Append(log, Rec(k, {d})) = DOMAIN log \union {Len(log) + 1}
          /\ \A i \in DOMAIN log : Append(log, Rec(k, {d}))[i] = log[i]
          /\ Append(log, Rec(k, {d}))[Len(log) + 1].calls = {d}
      BY <2>1, AppendFacts
    <3>3. QED
      BY <3>1, <3>2
  <2>7. ASSUME NEW c \in Calls \ stolen', NEW i \in DOMAIN log', NEW j \in DOMAIN log',
               log'[i].kind \in Answers, log'[j].kind \in Answers,
               c \in log'[i].calls, c \in log'[j].calls
        PROVE  i = j
    <3>1. c \in Calls \ stolen
      BY <1>1
    <3>2. CASE i \in DOMAIN log /\ j \in DOMAIN log
      BY <2>6, <2>7, <3>1, <3>2 DEF ServeInv, OneResult
    <3>3. CASE c = d
      <4>1. \A n \in DOMAIN log : log[n].kind \in Answers => d \notin log[n].calls
        BY <2>3, <3>1, <3>3 DEF Answered, Carried
      <4>2. QED
        BY <2>6, <2>7, <3>3, <4>1
    <3>4. CASE c # d
      BY <2>6, <2>7, <3>2, <3>4
    <3>5. QED
      BY <3>3, <3>4
  <2>8. QED
    BY <2>5, <2>7 DEF ServeInv, OneResult
<1>6. QED
  BY <1>4, <1>5, AnswerActor

LEMMA StepServe == TypeOK /\ StartedOnce /\ ListInv /\ ServeInv /\ [Next]_vars => ServeInv'
<1> SUFFICES ASSUME TypeOK, StartedOnce, ListInv, ServeInv, [Next]_vars PROVE ServeInv'
  OBVIOUS
<1>1. ASSUME NEW c \in Calls, LeaseExpires(c) PROVE ServeInv'
  <2>1. stolen \subseteq stolen' /\ UNCHANGED <<log, pc, todo, current>>
    BY <1>1 DEF LeaseExpires, runVars
  <2>2. OneResult'
    BY <2>1 DEF ServeInv, OneResult
  <2>3. ASSUME NEW d \in Calls \ stolen', NEW r \in Runs, Serving(r, d), Recovering(r)
        PROVE  d \in leased'
    <3>1. d \in leased /\ current[r] = d
      BY <2>1, <2>3 DEF ServeInv, ServedOnce, Serving, Holds, Live, Recovering
    <3>2. QED
      BY <1>1, <2>3, <3>1 DEF LeaseExpires
  <2>4. ServedOnce'
    BY <2>1, <2>3 DEF ServeInv, ServedOnce, Serving, Holds, Live, Recovering
  <2>5. QED
    BY <2>2, <2>4 DEF ServeInv
<1>2. CASE UNCHANGED vars
  BY <1>2 DEF vars, ServeInv, ServedOnce, OneResult, Serving, Holds, Live, Recovering
<1>3. QED
  BY <1>1, <1>2, ServeStep DEF Next, Acts

(* A call is executed by one run at a time and gets one result, unless its *)
(* lease ran out under its owner or a run of another process that was      *)
(* still at work on it was taken for dead.                                 *)
THEOREM CallsSettledOnce == Spec => []SettledOnce
PROOF
  <1>1. Init => TypeOK /\ StartedOnce /\ ListInv BY InitType, InitStarted, InitList
  <1>2. Init => ServeInv
    BY DEF Init, ServeInv, ServedOnce, OneResult, Serving, Holds, Live, Recovering
  <1>3. TypeOK /\ StartedOnce /\ ListInv /\ ServeInv /\ [Next]_vars =>
          (TypeOK /\ StartedOnce /\ ListInv /\ ServeInv)'
    BY StepType, StepStarted, StepList, StepServe
  <1>4. ASSUME TypeOK, ServeInv PROVE SettledOnce
    <2>1. ASSUME NEW r \in Runs, Executing(r) PROVE current[r] \in Calls /\ Serving(r, current[r])
      BY <1>4, <2>1 DEF Executing, Serving, Holds, Live, Recovering, TypeOK
    <2>2. OneExecutor BY <1>4, <2>1 DEF ServeInv, ServedOnce, OneExecutor
    <2> QED BY <1>4, <2>2 DEF ServeInv, SettledOnce
  <1> QED BY <1>1, <1>2, <1>3, <1>4, PTL DEF Spec
=============================================================================
