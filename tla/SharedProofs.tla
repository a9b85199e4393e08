---------------------------- MODULE SharedProofs ----------------------------
(***************************************************************************)
(* The parts that stand by themselves: the event queue of the sessions,    *)
(* the registry of child processes and the path of a call's options, which *)
(* every adapter shares, and the client of `codex app-server`.  What each  *)
(* keeps for every set of events, children, callbacks, calls and requests, *)
(* and the queue as an implementation of the FIFO channel.  The parts have *)
(* no state in common, and their specifications no definition.             *)
(***************************************************************************)
EXTENDS EventQueue, ProcessRegistry, RunOptions, CodexAppServer, SequenceTheorems, TLAPS

-----------------------------------------------------------------------------
(* The event queue *)

\* Facts about sequences the steps below use.
LEMMA TailProperties ==
    ASSUME NEW S, NEW s \in Seq(S), s # <<>>
    PROVE  /\ Head(s) \in S
           /\ Head(s) = s[1]
           /\ Tail(s) \in Seq(S)
           /\ Len(Tail(s)) = Len(s) - 1
           /\ \A i \in 1..Len(Tail(s)) : Tail(s)[i] = s[i + 1]
           /\ Len(s) \in Nat \ {0}
OBVIOUS

LEMMA EmptyProperties ==
    ASSUME NEW S, NEW s \in Seq(S)
    PROVE  /\ Len(s) \in Nat
           /\ s = <<>> <=> Len(s) = 0
           /\ \A i \in 1..Len(s) : s[i] \in S
OBVIOUS

LEMMA FunctionIsSequence ==
    ASSUME NEW S, NEW n \in Nat, NEW f \in [1..n -> S]
    PROVE  f \in Seq(S) /\ Len(f) = n
OBVIOUS

\* The initial state satisfies the invariant.
LEMMA InitQueueInv == QueueInit => QueueInv
<1> SUFFICES ASSUME QueueInit PROVE QueueInv
  OBVIOUS
<1>1. Len(items) = 0 /\ Len(log) = 0 /\ Len(answers) = 0 /\ Len(resolvers) = 0
      /\ Delivered = 0
  BY DEF QueueInit, Delivered
<1>2. QueueTypeOK
  <2>1. \A S : <<>> \in Seq(S)
    OBVIOUS
  <2> QED BY <2>1 DEF QueueInit, QueueTypeOK
<1>3. StoredIsTail /\ NoStrandedCall
  BY <1>1 DEF QueueInit, StoredIsTail, NoStrandedCall
<1>4. WaitersAreNewest /\ AnswersFollowLog
  BY <1>1 DEF QueueInit, WaitersAreNewest, AnswersFollowLog
<1> QED BY <1>2, <1>3, <1>4 DEF QueueInv

\* push() preserves the invariant.
LEMMA PushQueueInv ==
    ASSUME QueueInv, NEW e \in Event, Push(e)
    PROVE  QueueInv'
<1> USE DEF QueueInv, QueueTypeOK
<1>1. /\ log' \in Seq(Event)
      /\ Len(log') = Len(log) + 1
      /\ \A i \in 1..Len(log) : log'[i] = log[i]
      /\ log'[Len(log) + 1] = e
  BY AppendProperties DEF Push
<1>2. Len(log) \in Nat /\ Len(items) \in Nat /\ Len(answers) \in Nat
      /\ Len(resolvers) \in Nat
  OBVIOUS
<1>3. CASE resolvers # <<>>
  <2>1. /\ answers' = [answers EXCEPT ![Head(resolvers)] = e]
        /\ resolvers' = Tail(resolvers)
        /\ items' = items /\ items = <<>> /\ ~closed /\ closed' = closed
        /\ iterated' = iterated
    BY <1>3 DEF Push, NoStrandedCall
  <2>2. /\ Head(resolvers) = resolvers[1]
        /\ Len(resolvers) \in Nat \ {0}
        /\ Len(resolvers') = Len(resolvers) - 1
        /\ \A i \in 1..Len(resolvers') : resolvers'[i] = resolvers[i + 1]
    BY <1>3, <2>1, TailProperties
  <2>3. Len(items) = 0 /\ Len(items') = 0 /\ Delivered = Len(log)
        /\ Delivered' = Len(log) + 1
    BY <2>1, <1>1, <1>2 DEF Delivered
  <2>4. Head(resolvers) = Len(log) + 1 /\ Len(answers) = Len(log) + Len(resolvers)
    BY <1>3, <2>2, <2>3 DEF WaitersAreNewest
  <2>5. /\ answers' \in Seq(Event \cup {Waiting, Finished})
        /\ Len(answers') = Len(answers)
        /\ \A k \in 1..Len(answers) :
              answers'[k] = IF k = Len(log) + 1 THEN e ELSE answers[k]
    <3>0. answers' = [answers EXCEPT ![Len(log) + 1] = e]
      BY <2>1, <2>4
    <3>1. Len(log) + 1 \in 1..Len(answers)
      <4> HIDE DEF QueueInv, QueueTypeOK
      <4> QED BY <2>2, <2>4, <1>2
    <3>2. answers \in Seq(Event \cup {Waiting, Finished}) /\ e \in Event \cup {Waiting, Finished}
      OBVIOUS
    <3> QED BY <3>0, <3>1, <3>2, ExceptSeq
  <2>6. \A i \in 1..Len(resolvers') : resolvers'[i] = Len(log) + 1 + i
    <3>1. \A i \in 1..Len(resolvers) : resolvers[i] = Len(log) + i
      BY <2>3 DEF WaitersAreNewest
    <3> HIDE DEF QueueInv, QueueTypeOK
    <3> QED BY <3>1, <2>2, <1>2
  <2>7. resolvers' \in Seq(1..Len(answers'))
    BY <2>1, <2>5, <1>3, TailProperties
  <2>8. QueueTypeOK'
    BY <2>1, <2>5, <2>7, <1>1
  <2>9. StoredIsTail'
    BY <2>1, <2>3, <1>1, <1>2 DEF StoredIsTail
  <2>10. NoStrandedCall'
    BY <2>1 DEF NoStrandedCall
  <2>11. WaitersAreNewest'
    BY <2>2, <2>3, <2>4, <2>5, <2>6, <1>2 DEF WaitersAreNewest
  <2>12. AnswersFollowLog'
    <3>1. Delivered' <= Len(answers')
      BY <2>3, <2>4, <2>5, <2>2, <1>2
    <3>2. \A k \in 1..Len(answers') :
             answers'[k] = IF k <= Delivered' THEN log'[k]
                           ELSE IF closed' THEN Finished ELSE Waiting
      BY <2>1, <2>3, <2>5, <1>1, <1>2 DEF AnswersFollowLog
    <3>3. Len(answers') > Delivered' =>
             items' = <<>> /\ (closed' \/ resolvers' # <<>>)
      <4>1. resolvers' = <<>> => Len(resolvers') = 0
        OBVIOUS
      <4> QED BY <4>1, <2>1, <2>2, <2>3, <2>4, <2>5, <1>2
    <3> QED BY <3>1, <3>2, <3>3 DEF AnswersFollowLog
  <2> QED BY <2>8, <2>9, <2>10, <2>11, <2>12
<1>4. CASE resolvers = <<>>
  <2>1. /\ items' = Append(items, e)
        /\ answers' = answers /\ resolvers' = resolvers
        /\ closed' = closed /\ iterated' = iterated /\ ~closed
    BY <1>4 DEF Push
  <2>2. /\ items' \in Seq(Event)
        /\ Len(items') = Len(items) + 1
        /\ \A i \in 1..Len(items) : items'[i] = items[i]
        /\ items'[Len(items) + 1] = e
    BY <2>1, AppendProperties
  <2>3. Delivered' = Delivered /\ Delivered \in Nat
    BY <2>2, <1>1, <1>2 DEF Delivered, StoredIsTail
  <2>4. Len(answers) = Delivered
    BY <1>4, <2>1, <1>2, <2>3 DEF AnswersFollowLog
  <2>5. StoredIsTail'
    <3>1. ASSUME NEW i \in 1..Len(items)
          PROVE  items'[i] = log'[Delivered' + i]
      <4>1. Delivered + i \in 1..Len(log)
        BY <1>2, <2>3 DEF Delivered
      <4> QED BY <4>1, <2>2, <2>3, <1>1 DEF StoredIsTail
    <3>2. items'[Len(items')] = log'[Delivered' + Len(items')]
      BY <2>2, <2>3, <1>1, <1>2 DEF Delivered
    <3>3. Len(items') <= Len(log')
      BY <2>2, <1>1, <1>2 DEF StoredIsTail
    <3>4. \A i \in 1..Len(items') : i \in 1..Len(items) \/ i = Len(items')
      BY <2>2, <1>2
    <3> QED BY <3>1, <3>2, <3>3, <3>4 DEF StoredIsTail
  <2>6. NoStrandedCall' /\ WaitersAreNewest'
    BY <1>4, <2>1, <2>3, EmptyProperties DEF NoStrandedCall, WaitersAreNewest
  <2>7. AnswersFollowLog'
    <3>1. Delivered' <= Len(answers') /\ ~(Len(answers') > Delivered')
      BY <2>1, <2>3, <2>4
    <3>2. ASSUME NEW k \in 1..Len(answers')
          PROVE  k <= Delivered' /\ answers'[k] = log'[k]
      <4>1. k \in 1..Len(answers) /\ k <= Delivered /\ answers[k] = log[k]
        BY <2>1, <2>4 DEF AnswersFollowLog
      <4>2. Delivered <= Len(log)
        BY <1>2 DEF Delivered
      <4> QED BY <4>1, <4>2, <2>1, <2>3, <1>1, <1>2
    <3> QED BY <3>1, <3>2 DEF AnswersFollowLog
  <2> QED BY <2>1, <2>2, <2>5, <2>6, <2>7, <1>1
<1> QED BY <1>3, <1>4

\* close() and return() preserve the invariant.
LEMMA CloseQueueInv ==
    ASSUME QueueInv, Close
    PROVE  QueueInv'
<1> USE DEF QueueInv, QueueTypeOK
<1>1. /\ ~closed /\ closed' = TRUE /\ resolvers' = <<>>
      /\ items' = items /\ log' = log /\ iterated' = iterated
      /\ Len(answers) \in Nat /\ Len(log) \in Nat /\ Len(items) \in Nat
      /\ Delivered' = Delivered /\ Delivered \in Nat
  BY DEF Close, Delivered, StoredIsTail
<1>2. /\ answers' \in Seq(Event \cup {Waiting, Finished})
      /\ Len(answers') = Len(answers)
      /\ \A k \in 1..Len(answers) :
            answers'[k] = IF \E i \in 1..Len(resolvers) : resolvers[i] = k
                          THEN Finished ELSE answers[k]
  <2> DEFINE hit(k) == \E i \in 1..Len(resolvers) : resolvers[i] = k
  <2>1. answers' = [k \in 1..Len(answers) |-> IF hit(k) THEN Finished ELSE answers[k]]
    BY DEF Close
  <2> HIDE DEF hit
  <2>2. \A k \in 1..Len(answers) : answers'[k] = IF hit(k) THEN Finished ELSE answers[k]
    BY <2>1
  <2>3. answers' \in [1..Len(answers) -> Event \cup {Waiting, Finished}]
    BY <2>1, EmptyProperties
  <2>4. answers' \in Seq(Event \cup {Waiting, Finished}) /\ Len(answers') = Len(answers)
    BY <2>3, <1>1, FunctionIsSequence
  <2> QED BY <2>2, <2>4 DEF hit
<1>3. \A k \in 1..Len(answers) :
         k > Delivered <=> \E i \in 1..Len(resolvers) : resolvers[i] = k
  <2> SUFFICES ASSUME NEW k \in 1..Len(answers)
               PROVE  k > Delivered <=> \E i \in 1..Len(resolvers) : resolvers[i] = k
    OBVIOUS
  <2>0. Len(resolvers) \in Nat /\ (resolvers = <<>> <=> Len(resolvers) = 0)
    BY EmptyProperties
  <2>1. CASE resolvers = <<>>
    BY <2>1, <2>0, <1>1 DEF AnswersFollowLog
  <2>2. CASE resolvers # <<>>
    <3>1. Len(answers) = Delivered + Len(resolvers)
          /\ \A i \in 1..Len(resolvers) : resolvers[i] = Delivered + i
      BY <2>2 DEF WaitersAreNewest
    <3>2. ASSUME k > Delivered PROVE \E i \in 1..Len(resolvers) : resolvers[i] = k
      <4>1. k - Delivered \in 1..Len(resolvers)
        BY <3>1, <3>2, <2>0, <1>1
      <4>2. resolvers[k - Delivered] = k
        BY <4>1, <3>1, <1>1
      <4> QED BY <4>1, <4>2
    <3>3. ASSUME NEW i \in 1..Len(resolvers), resolvers[i] = k PROVE k > Delivered
      BY <3>1, <3>3, <2>0, <1>1
    <3> QED BY <3>2, <3>3
  <2> QED BY <2>1, <2>2
<1>4. AnswersFollowLog'
  BY <1>1, <1>2, <1>3 DEF AnswersFollowLog, NoStrandedCall
<1>5. StoredIsTail'
  BY <1>1 DEF StoredIsTail
<1>6. NoStrandedCall' /\ WaitersAreNewest'
  BY <1>1 DEF NoStrandedCall, WaitersAreNewest
<1> QED BY <1>1, <1>2, <1>4, <1>5, <1>6

\* next() preserves the invariant.
LEMMA CallNextQueueInv ==
    ASSUME QueueInv, CallNext
    PROVE  QueueInv'
<1> USE DEF QueueInv, QueueTypeOK
<1>0. /\ closed' = closed /\ log' = log /\ iterated' = iterated
      /\ Len(answers) \in Nat /\ Len(log) \in Nat /\ Len(items) \in Nat
      /\ Len(resolvers) \in Nat
      /\ Delivered \in Nat
  BY DEF CallNext, Delivered, StoredIsTail
<1>1. CASE items # <<>>
  <2>1. /\ answers' = Append(answers, Head(items))
        /\ items' = Tail(items)
        /\ resolvers' = resolvers /\ resolvers = <<>>
    BY <1>1 DEF CallNext, NoStrandedCall
  <2>2. /\ Head(items) \in Event /\ Head(items) = items[1]
        /\ items' \in Seq(Event)
        /\ Len(items') = Len(items) - 1
        /\ \A i \in 1..Len(items') : items'[i] = items[i + 1]
        /\ Len(items) \in Nat \ {0}
    BY <1>1, <2>1, TailProperties
  <2>3. Delivered' = Delivered + 1 /\ Len(answers) = Delivered
    BY <2>2, <1>0, <1>1 DEF Delivered, AnswersFollowLog
  <2>4. /\ answers' \in Seq(Event \cup {Waiting, Finished})
        /\ Len(answers') = Len(answers) + 1
        /\ \A k \in 1..Len(answers) : answers'[k] = answers[k]
        /\ answers'[Len(answers) + 1] = items[1]
    BY <2>1, <2>2, AppendProperties
  <2>5. items[1] = log[Delivered + 1]
    <3>1. 1 \in 1..Len(items)
      BY <2>2
    <3> QED BY <3>1 DEF StoredIsTail
  <2>6. StoredIsTail'
    BY <2>2, <2>3, <1>0 DEF StoredIsTail
  <2>7. NoStrandedCall' /\ WaitersAreNewest' /\ resolvers' \in Seq(1..Len(answers'))
    BY <2>1 DEF NoStrandedCall, WaitersAreNewest
  <2>8. AnswersFollowLog'
    BY <2>3, <2>4, <2>5, <1>0 DEF AnswersFollowLog
  <2> QED BY <2>2, <2>4, <2>6, <2>7, <2>8, <1>0
<1>2. CASE items = <<>> /\ closed
  <2>1. /\ answers' = Append(answers, Finished)
        /\ items' = items /\ resolvers' = resolvers /\ resolvers = <<>>
    BY <1>2 DEF CallNext, NoStrandedCall
  <2>2. /\ answers' \in Seq(Event \cup {Waiting, Finished})
        /\ Len(answers') = Len(answers) + 1
        /\ \A k \in 1..Len(answers) : answers'[k] = answers[k]
        /\ answers'[Len(answers) + 1] = Finished
    BY <2>1, AppendProperties
  <2>3. Delivered' = Delivered
    BY <2>1, <1>0 DEF Delivered
  <2>4. StoredIsTail'
    BY <2>1, <2>3, <1>0 DEF StoredIsTail
  <2>5. NoStrandedCall' /\ WaitersAreNewest' /\ resolvers' \in Seq(1..Len(answers'))
    BY <2>1 DEF NoStrandedCall, WaitersAreNewest
  <2>6. AnswersFollowLog'
    BY <1>2, <2>1, <2>2, <2>3, <1>0 DEF AnswersFollowLog
  <2> QED BY <2>1, <2>2, <2>4, <2>5, <2>6, <1>0
<1>3. CASE items = <<>> /\ ~closed
  <2>1. /\ answers' = Append(answers, Waiting)
        /\ resolvers' = Append(resolvers, Len(answers) + 1)
        /\ items' = items
    BY <1>3 DEF CallNext
  <2>2. /\ answers' \in Seq(Event \cup {Waiting, Finished})
        /\ Len(answers') = Len(answers) + 1
        /\ \A k \in 1..Len(answers) : answers'[k] = answers[k]
        /\ answers'[Len(answers) + 1] = Waiting
    BY <2>1, AppendProperties
  <2>3. resolvers \in Seq(1..Len(answers'))
    BY <2>2, <1>0
  <2>4. /\ resolvers' \in Seq(1..Len(answers'))
        /\ Len(resolvers') = Len(resolvers) + 1
        /\ \A i \in 1..Len(resolvers) : resolvers'[i] = resolvers[i]
        /\ resolvers'[Len(resolvers) + 1] = Len(answers) + 1
        /\ resolvers' # <<>>
    <3> DEFINE S == 1..Len(answers')
    <3>1. Len(answers) + 1 \in S
      BY <2>2, <1>0
    <3>2. resolvers \in Seq(S)
      BY <2>3
    <3> HIDE DEF S
    <3>3. /\ resolvers' \in Seq(S)
          /\ Len(resolvers') = Len(resolvers) + 1
          /\ \A i \in 1..Len(resolvers) : resolvers'[i] = resolvers[i]
          /\ resolvers'[Len(resolvers) + 1] = Len(answers) + 1
      BY <2>1, <3>1, <3>2, AppendProperties
    <3>4. resolvers' # <<>>
      BY <3>3, <1>0, EmptyProperties
    <3> QED BY <3>3, <3>4 DEF S
  <2>5. Delivered' = Delivered
    BY <2>1, <1>0 DEF Delivered
  <2>6. Len(answers) = Delivered + Len(resolvers)
    <3>1. CASE resolvers = <<>>
      BY <3>1, <1>3, <1>0 DEF AnswersFollowLog
    <3>2. CASE resolvers # <<>>
      BY <3>2 DEF WaitersAreNewest
    <3> QED BY <3>1, <3>2
  <2>7. StoredIsTail'
    BY <2>1, <2>5, <1>0 DEF StoredIsTail
  <2>8. NoStrandedCall'
    BY <1>3, <2>1, <1>0 DEF NoStrandedCall
  <2>9. WaitersAreNewest'
    <3>1. Len(answers') = Delivered' + Len(resolvers')
      BY <2>2, <2>4, <2>5, <2>6, <1>0
    <3>2. ASSUME NEW i \in 1..Len(resolvers')
          PROVE  resolvers'[i] = Delivered' + i
      <4>1. i \in 1..Len(resolvers) \/ i = Len(resolvers) + 1
        BY <2>4, <1>0
      <4>2. CASE i \in 1..Len(resolvers)
        BY <4>2, <2>4, <2>5 DEF WaitersAreNewest
      <4>3. CASE i = Len(resolvers) + 1
        BY <4>3, <2>4, <2>5, <2>6, <1>0
      <4> QED BY <4>1, <4>2, <4>3
    <3> QED BY <3>1, <3>2 DEF WaitersAreNewest
  <2>10. AnswersFollowLog'
    <3>1. Delivered' <= Len(answers')
      BY <2>2, <2>5, <2>6, <1>0
    <3>2. ASSUME NEW k \in 1..Len(answers')
          PROVE  answers'[k] = IF k <= Delivered' THEN log'[k]
                               ELSE IF closed' THEN Finished ELSE Waiting
      <4>1. k \in 1..Len(answers) \/ k = Len(answers) + 1
        BY <2>2, <1>0
      <4>2. CASE k \in 1..Len(answers)
        BY <4>2, <2>2, <2>5, <1>0 DEF AnswersFollowLog
      <4>3. CASE k = Len(answers) + 1
        BY <4>3, <1>3, <2>2, <2>5, <2>6, <1>0
      <4> QED BY <4>1, <4>2, <4>3
    <3> QED BY <3>1, <3>2, <2>1, <2>4, <1>3 DEF AnswersFollowLog
  <2> QED BY <2>1, <2>2, <2>4, <2>7, <2>8, <2>9, <2>10, <1>0
<1> QED BY <1>1, <1>2, <1>3

\* Every step of the queue preserves the invariant.
LEMMA StepQueueInv == QueueInv /\ [QueueNext]_queueVars => QueueInv'
<1> SUFFICES ASSUME QueueInv, [QueueNext]_queueVars PROVE QueueInv'
  OBVIOUS
<1>1. ASSUME NEW e \in Event, Push(e) PROVE QueueInv'
  BY <1>1, PushQueueInv
<1>2. CASE Close \/ Return
  BY <1>2, CloseQueueInv DEF Return
<1>3. CASE CallNext
  BY <1>3, CallNextQueueInv
<1>4. CASE Iterate \/ UNCHANGED queueVars
  <2>1. /\ items' = items /\ resolvers' = resolvers /\ closed' = closed
        /\ answers' = answers /\ log' = log /\ iterated' \in BOOLEAN
    BY <1>4 DEF Iterate, queueVars, QueueInv, QueueTypeOK
  <2> QED BY <2>1 DEF QueueInv, QueueTypeOK, StoredIsTail, NoStrandedCall,
                      WaitersAreNewest, AnswersFollowLog, Delivered
<1> QED BY <1>1, <1>2, <1>3, <1>4 DEF QueueNext

\* The k-th next() call holds the k-th accepted event, whatever the calls
\* outstanding, and no call waits on a closed or non-empty queue.
THEOREM QueueInvariant == QueueSpec => []QueueInv
BY InitQueueInv, StepQueueInv, PTL DEF QueueSpec

\* No lost wakeup, for every set of events and number of calls.
THEOREM NeverStrands == QueueSpec => []NoStrandedCall
BY QueueInvariant, PTL DEF QueueInv

\* FIFO delivery without loss or duplication.
THEOREM FollowsLog == QueueSpec => []AnswersFollowLog
BY QueueInvariant, PTL DEF QueueInv

-----------------------------------------------------------------------------
(* Refinement *)

\* Every answer is the one the channel gives.
AbstractAnswers == answers = Channel!Answers(Len(answers), log, closed)

\* The invariant determines every answer: it is the abstract one.
LEMMA AnswersAreAbstract == QueueInv => AbstractAnswers
<1> SUFFICES ASSUME QueueInv PROVE AbstractAnswers
  OBVIOUS
<1> DEFINE abs == Channel!Answers(Len(answers), log, closed)
<1>0. /\ Len(answers) \in Nat /\ Len(log) \in Nat /\ Len(items) \in Nat
      /\ Delivered \in Nat /\ Delivered <= Len(log)
      /\ (items = <<>> <=> Len(items) = 0)
      /\ answers = [k \in 1..Len(answers) |-> answers[k]]
  BY EmptyProperties DEF QueueInv, QueueTypeOK, StoredIsTail, Delivered
<1>1. Len(answers) > Delivered => Delivered = Len(log)
  BY <1>0 DEF QueueInv, AnswersFollowLog, Delivered
<1>2. ASSUME NEW k \in 1..Len(answers) PROVE answers[k] = abs[k]
  <2>1. abs[k] = IF k <= Len(log) THEN log[k]
                 ELSE IF closed THEN Finished ELSE Waiting
    BY DEF Channel!Answers, Channel!Answer
  <2>2. answers[k] = IF k <= Delivered THEN log[k]
                     ELSE IF closed THEN Finished ELSE Waiting
    BY DEF QueueInv, AnswersFollowLog
  <2>3. k <= Delivered <=> k <= Len(log)
    BY <1>0, <1>1
  <2> QED BY <2>1, <2>2, <2>3
<1>3. abs = [k \in 1..Len(answers) |-> abs[k]]
  BY DEF Channel!Answers
<1> HIDE DEF abs
<1>4. answers = abs
  BY <1>0, <1>2, <1>3
<1> QED BY <1>4 DEF abs, AbstractAnswers

\* push() and close() answer calls but make none; next() makes one.
LEMMA LengthKept ==
    ASSUME QueueInv
    PROVE  /\ \A e \in Event : Push(e) => Len(answers') = Len(answers)
           /\ Close => Len(answers') = Len(answers)
           /\ CallNext => Len(answers') = Len(answers) + 1
<1> USE DEF QueueInv, QueueTypeOK
<1>0. Len(answers) \in Nat
  BY EmptyProperties
<1>1. ASSUME NEW e \in Event, Push(e) PROVE Len(answers') = Len(answers)
  BY <1>1, <1>0 DEF Push
<1>2. ASSUME Close PROVE Len(answers') = Len(answers)
  <2> DEFINE new(k) == IF \E i \in 1..Len(resolvers) : resolvers[i] = k
                       THEN Finished ELSE answers[k]
  <2>1. answers' = [k \in 1..Len(answers) |-> new(k)]
    BY <1>2 DEF Close
  <2> HIDE DEF new
  <2> QED BY <2>1, <1>0
<1>3. ASSUME CallNext PROVE Len(answers') = Len(answers) + 1
  <2>1. \E a : answers' = Append(answers, a)
    BY <1>3 DEF CallNext
  <2> QED BY <2>1, <1>0
<1> QED BY <1>1, <1>2, <1>3

\* The initial queue is an initial channel.
LEMMA InitRefines == QueueInit => Channel!Init
BY DEF QueueInit, Channel!Init

\* Every step of the queue is a step of the channel or changes nothing of it.
LEMMA StepRefines ==
    QueueInv /\ QueueInv' /\ [QueueNext]_queueVars => [Channel!Next]_Channel!chanVars
<1> SUFFICES ASSUME QueueInv, QueueInv', [QueueNext]_queueVars
             PROVE  [Channel!Next]_Channel!chanVars
  OBVIOUS
<1> USE DEF Channel!Next, Channel!chanVars
<1>0. answers' = Channel!Answers(Len(answers'), log', closed')
  <2>1. AbstractAnswers'
    BY AnswersAreAbstract, PTL
  <2> QED BY <2>1 DEF AbstractAnswers, Channel!Answers, Channel!Answer
<1>1. ASSUME NEW e \in Event, Push(e) PROVE Channel!Next
  <2>1. Len(answers') = Len(answers)
    BY <1>1, LengthKept
  <2>2. Channel!Accept(e)
    BY <1>0, <1>1, <2>1 DEF Push, Channel!Accept
  <2> QED BY <2>2
<1>2. CASE Close \/ Return
  <2>1. Len(answers') = Len(answers)
    BY <1>2, LengthKept DEF Return
  <2>2. Channel!Shut
    BY <1>0, <1>2, <2>1 DEF Close, Return, Channel!Shut
  <2> QED BY <2>2
<1>3. CASE CallNext
  <2>1. Len(answers') = Len(answers) + 1 /\ log' = log /\ closed' = closed
    BY <1>3, LengthKept DEF CallNext
  <2>2. Channel!Ask
    BY <1>0, <2>1 DEF Channel!Ask
  <2> QED BY <2>2
<1>4. CASE Iterate \/ UNCHANGED queueVars
  BY <1>4 DEF Iterate, queueVars
<1> QED BY <1>1, <1>2, <1>3, <1>4 DEF QueueNext

\* SessionEventQueue implements the FIFO channel its consumers are promised:
\* with several next() calls outstanding, pushes and a close in any order.
THEOREM QueueImplementsChannel == QueueSpec => ImplementsChannel
BY InitRefines, StepRefines, QueueInvariant, PTL DEF QueueSpec, ImplementsChannel, Channel!Spec

-----------------------------------------------------------------------------
(* The process registry *)

\* Proceed keeps the types of what it changes, from any position, and
\* leaves every other call where it is.
LEMMA ProceedTypes ==
    ASSUME TypeOK, NEW k \in Killer, NEW i \in Nat \ {0}, Proceed(k, i)
    PROVE  /\ pc' \in [Killer -> {"idle", "waiting", "callback"}]
           /\ \A j \in Killer \ {k} : pc'[j] = pc[j]
           /\ index' \in [Killer -> Nat]
           /\ shutdownCallbacks' \in Seq(Callback)
           /\ ran' \in SUBSET Callback
<1>1. shutdownCallbacks' \in Seq(Callback) /\ ran' \in SUBSET Callback
    <2>1. CASE i <= Len(shutdownCallbacks)
        <3>1. shutdownCallbacks[i] \in Callback
            BY <2>1, LenProperties, ElementOfSeq DEF TypeOK
        <3>. QED  BY <2>1, <3>1 DEF Proceed, TypeOK
    <2>2. CASE ~(i <= Len(shutdownCallbacks))
        BY <2>2, EmptySeq DEF Proceed, TypeOK
    <2>. QED  BY <2>1, <2>2
<1>2. \E place \in {"idle", "callback"}, n \in Nat :
        /\ pc' = [pc EXCEPT ![k] = place]
        /\ index' = [index EXCEPT ![k] = n]
    BY DEF Proceed
<1>3. /\ pc' \in [Killer -> {"idle", "waiting", "callback"}]
      /\ \A j \in Killer \ {k} : pc'[j] = pc[j]
      /\ index' \in [Killer -> Nat]
    BY <1>2 DEF TypeOK
<1>. QED  BY <1>1, <1>3

\* The initial state satisfies the invariant.
LEMMA InitRegistryInv == Init => RegistryInv
<1>1. <<>> \in Seq(Callback)
    BY EmptySeq
<1>. QED
    BY <1>1 DEF Init, RegistryInv, TypeOK, RunningIsTracked, SpawnedIsKnown,
                CallbacksAfterWait

\* The operating system's steps: a child that ends stays tracked, and no
\* ended child runs again.
LEMMA OsRegistryInv ==
    ASSUME RegistryInv, NEW p \in Proc, Fork(p) \/ Exit(p)
    PROVE  RegistryInv'
<1>. USE DEF RegistryInv, TypeOK, RunningIsTracked, SpawnedIsKnown,
             CallbacksAfterWait, killVars
<1>1. CASE Fork(p)
    BY <1>1 DEF Fork
<1>2. CASE Exit(p)
    BY <1>2 DEF Exit
<1>. QED  BY <1>1, <1>2

\* register() tracks the child in the step that starts it.
LEMMA RegisterRegistryInv ==
    ASSUME RegistryInv, NEW p \in Proc, NEW g \in BOOLEAN, Register(p, g)
    PROVE  RegistryInv'
<1>. USE DEF Register, RegistryInv, killVars
<1>1. TypeOK'
    BY DEF TypeOK
<1>2. RunningIsTracked'
    BY DEF TypeOK, RunningIsTracked
<1>3. SpawnedIsKnown'
    BY DEF TypeOK, SpawnedIsKnown
<1>4. CallbacksAfterWait'
    BY DEF TypeOK, SpawnedIsKnown, CallbacksAfterWait
<1>. QED  BY <1>1, <1>2, <1>3, <1>4

\* unregister() loses only a child that is gone.
LEMMA UnregisterRegistryInv ==
    ASSUME RegistryInv, NEW p \in Proc, Unregister(p)
    PROVE  RegistryInv'
BY DEF Unregister, RegistryInv, TypeOK, RunningIsTracked, SpawnedIsKnown,
       CallbacksAfterWait, osVars, killVars

\* onShutdown() and its disposer touch the callbacks only.
LEMMA CallbackRegistryInv ==
    ASSUME RegistryInv, NEW c \in Callback, OnShutdown(c) \/ Dispose(c)
    PROVE  RegistryInv'
<1>. USE DEF RegistryInv, RunningIsTracked, SpawnedIsKnown,
             CallbacksAfterWait, osVars, killVars
<1>1. CASE OnShutdown(c)
    <2>1. shutdownCallbacks' \in Seq(Callback)
        BY <1>1, AppendProperties DEF OnShutdown, TypeOK
    <2>. QED  BY <1>1, <2>1 DEF OnShutdown, TypeOK
<1>2. CASE Dispose(c)
    <2>1. shutdownCallbacks' \in Seq(Callback)
        <3>1. PICK i \in 1..Len(shutdownCallbacks) :
                 shutdownCallbacks' =
                    [j \in 1..(Len(shutdownCallbacks) - 1) |->
                        shutdownCallbacks[IF j < i THEN j ELSE j + 1]]
            BY <1>2 DEF Dispose
        <3>2. /\ Len(shutdownCallbacks) \in Nat
              /\ \A j \in 1..Len(shutdownCallbacks) :
                    shutdownCallbacks[j] \in Callback
            BY LenProperties, ElementOfSeq DEF TypeOK
        <3>. DEFINE n == Len(shutdownCallbacks) - 1
        <3>3. n \in Nat
            BY <3>2
        <3>4. shutdownCallbacks' \in [1..n -> Callback]
            BY <3>1, <3>2
        <3>. QED  BY <3>3, <3>4, SeqDef
    <2>. QED  BY <1>2, <2>1 DEF Dispose, TypeOK
<1>. QED  BY <1>1, <1>2

\* The first part of a call: what it awaits is what is tracked, and with
\* nothing tracked it awaits nothing.
LEMMA KillAllRegistryInv ==
    ASSUME RegistryInv, NEW k \in Killer, KillAll(k)
    PROVE  RegistryInv'
<1>. USE DEF RegistryInv
<1>1. TypeOK'
    <2>1. CASE processes # {}
        BY <2>1 DEF KillAll, TypeOK
    <2>2. CASE processes = {}
        BY <2>2, ProceedTypes DEF KillAll, TypeOK
    <2>. QED  BY <2>1, <2>2
<1>2. RunningIsTracked'
    BY DEF KillAll, RunningIsTracked
<1>3. SpawnedIsKnown'
    BY DEF KillAll, SpawnedIsKnown, TypeOK
<1>4. CallbacksAfterWait'
    <2>1. CASE processes # {}
        BY <2>1 DEF KillAll, CallbacksAfterWait, TypeOK
    <2>2. CASE processes = {}
        <3>1. \A j \in Killer \ {k} : pc'[j] = pc[j]
            BY <2>2, ProceedTypes DEF KillAll
        <3>. QED  BY <2>2, <3>1 DEF KillAll, CallbacksAfterWait, TypeOK
    <2>. QED  BY <2>1, <2>2
<1>. QED  BY <1>1, <1>2, <1>3, <1>4

\* The timer moves nobody.
LEMMA ExpireRegistryInv ==
    ASSUME RegistryInv, NEW k \in Killer, Expire(k)
    PROVE  RegistryInv'
BY DEF Expire, RegistryInv, TypeOK, RunningIsTracked, SpawnedIsKnown,
       CallbacksAfterWait, osVars

\* The sweep: whatever ran was tracked, so nothing runs after it.
LEMMA SweepRegistryInv ==
    ASSUME RegistryInv, NEW k \in Killer, Sweep(k)
    PROVE  RegistryInv'
<1>. USE DEF RegistryInv
<1>1. TypeOK'
    BY ProceedTypes DEF Sweep, KillOutcome, KillGroups, TypeOK
<1>2. \A p \in Proc : child'[p] # "running"
    BY DEF Sweep, KillOutcome, RunningIsTracked, TypeOK
<1>3. RunningIsTracked' /\ CallbacksAfterWait'
    BY <1>1, <1>2 DEF RunningIsTracked, CallbacksAfterWait, TypeOK
<1>4. SpawnedIsKnown'
    BY DEF Sweep, KillOutcome, SpawnedIsKnown, TypeOK
<1>. QED  BY <1>1, <1>3, <1>4

\* A call that is already in its callbacks may run the next one.
LEMMA ResumeRegistryInv ==
    ASSUME RegistryInv, NEW k \in Killer, Resume(k)
    PROVE  RegistryInv'
<1>. USE DEF RegistryInv, osVars
<1>1. index[k] + 1 \in Nat \ {0}
    BY DEF TypeOK
<1>2. TypeOK'
    BY <1>1, ProceedTypes DEF Resume, TypeOK
<1>3. RunningIsTracked' /\ SpawnedIsKnown'
    BY DEF Resume, RunningIsTracked, SpawnedIsKnown
<1>4. CallbacksAfterWait'
    <2>1. \A j \in Killer \ {k} : pc'[j] = pc[j]
        BY <1>1, ProceedTypes DEF Resume
    <2>. QED  BY <2>1 DEF Resume, CallbacksAfterWait
<1>. QED  BY <1>2, <1>3, <1>4

\* Every step preserves the invariant.
LEMMA StepRegistryInv == RegistryInv /\ [Next]_vars => RegistryInv'
<1>. SUFFICES ASSUME RegistryInv, [Next]_vars PROVE RegistryInv'
    OBVIOUS
<1>1. ASSUME NEW p \in Proc, Fork(p) \/ Exit(p) PROVE RegistryInv'
    BY <1>1, OsRegistryInv
<1>2. ASSUME NEW p \in Proc, Unregister(p) PROVE RegistryInv'
    BY <1>2, UnregisterRegistryInv
<1>3. ASSUME NEW p \in Proc, NEW g \in BOOLEAN, Register(p, g)
      PROVE  RegistryInv'
    BY <1>3, RegisterRegistryInv
<1>4. ASSUME NEW c \in Callback, OnShutdown(c) \/ Dispose(c)
      PROVE  RegistryInv'
    BY <1>4, CallbackRegistryInv
<1>5. ASSUME NEW k \in Killer, KillAll(k) \/ Expire(k) \/ Sweep(k) \/ Resume(k)
      PROVE  RegistryInv'
    BY <1>5, KillAllRegistryInv, ExpireRegistryInv, SweepRegistryInv,
       ResumeRegistryInv
<1>6. CASE UNCHANGED vars
    BY <1>6 DEF vars, RegistryInv, TypeOK, RunningIsTracked, SpawnedIsKnown,
                CallbacksAfterWait
<1>. QED  BY <1>1, <1>2, <1>3, <1>4, <1>5, <1>6 DEF Next

\* RegistryInv is an invariant of the registry (process-registry.ts:74-163).
THEOREM RegistryInvariant == Spec => []RegistryInv
BY InitRegistryInv, StepRegistryInv, PTL DEF Spec

\* When a killAll() runs its shutdown callbacks, every child it signalled
\* has ended or been killed, however many calls overlap.
THEOREM CallbacksRunAfterWait == Spec => []CallbacksAfterWait
<1>1. RegistryInv => CallbacksAfterWait
    BY DEF RegistryInv
<1>. QED  BY <1>1, RegistryInvariant, PTL

\* No child that runs is ever untracked.
THEOREM NoChildIsLost == Spec => []RunningIsTracked
<1>1. RegistryInv => RunningIsTracked
    BY DEF RegistryInv
<1>. QED  BY <1>1, RegistryInvariant, PTL

-----------------------------------------------------------------------------
(* The options of a call: one that an option stops leaves nothing behind, no  *)
(* child runs on malformed options, and a running one has what is advertised. *)

\* A member of a list.
Among(k, s) == \E i \in 1..Len(s) : s[i] = k

LEMMA ConcatMembers ==
    ASSUME NEW s \in Seq(Steps), NEW t \in Seq(Steps), NEW k
    PROVE  s \o t \in Seq(Steps) /\ (Among(k, s \o t) <=> Among(k, s) \/ Among(k, t))
<1>1. /\ s \o t \in Seq(Steps) /\ Len(s \o t) = Len(s) + Len(t)
      /\ Len(s) \in Nat /\ Len(t) \in Nat
      /\ \A i \in 1..(Len(s) + Len(t)) : (s \o t)[i] = IF i <= Len(s) THEN s[i] ELSE t[i - Len(s)]
  OBVIOUS
<1>2. ASSUME Among(k, s) PROVE Among(k, s \o t)
  BY <1>1, <1>2 DEF Among
<1>3. ASSUME Among(k, t) PROVE Among(k, s \o t)
  <2>1. PICK i \in 1..Len(t) : t[i] = k
    BY <1>3 DEF Among
  <2>2. i + Len(s) \in 1..(Len(s) + Len(t)) /\ ~(i + Len(s) <= Len(s)) /\ i + Len(s) - Len(s) = i
    BY <1>1
  <2>3. (s \o t)[i + Len(s)] = k
    BY <1>1, <2>1, <2>2
  <2> QED BY <1>1, <2>2, <2>3 DEF Among
<1>4. ASSUME Among(k, s \o t) PROVE Among(k, s) \/ Among(k, t)
  <2>1. PICK i \in 1..(Len(s) + Len(t)) : (s \o t)[i] = k
    BY <1>1, <1>4 DEF Among
  <2>2. CASE i <= Len(s)
    <3>1. i \in 1..Len(s) /\ s[i] = k
      BY <1>1, <2>1, <2>2
    <3> QED BY <3>1 DEF Among
  <2>3. CASE ~(i <= Len(s))
    <3>1. i - Len(s) \in 1..Len(t) /\ t[i - Len(s)] = k
      BY <1>1, <2>1, <2>3
    <3> QED BY <3>1 DEF Among
  <2> QED BY <2>2, <2>3
<1> QED BY <1>1, <1>2, <1>3, <1>4

\* What is behind the head of a list.
LEMMA TailMembers ==
    ASSUME NEW s \in Seq(Steps), s # <<>>, NEW k, Among(k, s)
    PROVE  k = Head(s) \/ Among(k, Tail(s))
<1>1. PICK i \in 1..Len(s) : s[i] = k
  BY DEF Among
<1>2. Len(Tail(s)) = Len(s) - 1 /\ \A j \in 1..(Len(s) - 1) : Tail(s)[j] = s[j + 1]
  OBVIOUS
<1>3. CASE i = 1
  BY <1>1, <1>3
<1>4. CASE i # 1
  <2>1. i - 1 \in 1..(Len(s) - 1) /\ i - 1 + 1 = i
    BY <1>4
  <2> QED BY <1>1, <1>2, <2>1 DEF Among
<1> QED BY <1>3, <1>4

LEMMA TailLength ==
    ASSUME NEW s \in Seq(Steps), s # <<>>
    PROVE  /\ Tail(s) \in Seq(Steps)
           /\ Len(s) # 1 => Tail(s) # <<>>
           /\ Len(s) = 1 => Len(Tail(s)) = 0
<1>1. Tail(s) \in Seq(Steps) /\ Len(Tail(s)) = Len(s) - 1 /\ Len(s) \in Nat
  OBVIOUS
<1>2. Len(<<>>) = 0
  OBVIOUS
<1> QED BY <1>1, <1>2

-----------------------------------------------------------------------------
(* The lists of checks *)

LEMMA ClaudeListed ==
    ASSUME NEW s \in BOOLEAN
    PROVE  /\ ClaudeChecks(s) \in Seq(Steps)
           /\ \A k \in {"toolFilter", "effort", "mcpServers", "claudeOptions"} : Among(k, ClaudeChecks(s))
<1> DEFINE first == IF s THEN <<>> ELSE <<"promptDelivery">>
           rest == <<"permissionMode", "toolFilter", "effort", "mapEffort", "mcpServers",
                     "claudeOptions", "extraArgs">>
<1>1. first \in Seq(Steps) /\ rest \in Seq(Steps)
  <2>1. <<>> \in Seq(Steps)
    OBVIOUS
  <2>2. <<"promptDelivery">> \in Seq(Steps)
    BY DEF Steps
  <2>3. rest \in Seq(Steps)
    BY DEF Steps
  <2> QED BY <2>1, <2>2, <2>3
<1>2. DOMAIN rest = 1..7 /\ Len(rest) = 7
  OBVIOUS
<1>3. \A k \in {"toolFilter", "effort", "mcpServers", "claudeOptions"} : Among(k, rest)
  <2>1. rest[2] = "toolFilter"
    OBVIOUS
  <2>2. rest[3] = "effort"
    OBVIOUS
  <2>3. rest[5] = "mcpServers"
    OBVIOUS
  <2>4. rest[6] = "claudeOptions"
    OBVIOUS
  <2>5. 2 \in 1..7 /\ 3 \in 1..7 /\ 5 \in 1..7 /\ 6 \in 1..7
    OBVIOUS
  <2> HIDE DEF rest
  <2> QED BY <1>2, <2>1, <2>2, <2>3, <2>4, <2>5 DEF Among
<1>4. ClaudeChecks(s) = first \o rest
  BY DEF ClaudeChecks
<1> HIDE DEF first, rest
<1> QED BY <1>1, <1>3, <1>4, ConcatMembers

LEMMA CodexListed ==
    ASSUME NEW s \in BOOLEAN
    PROVE  /\ CodexChecks(s) \in Seq(Steps)
           /\ \A k \in {"toolFilter", "effort", "mcpServers"} : Among(k, CodexChecks(s))
           /\ Among(IF s THEN "schema" ELSE "codexOptions", CodexChecks(s))
<1> DEFINE first == <<"toolFilter", "warnToolFilter", "effort", "mcpServers">>
           ofSession == <<"ephemeralResume", "schema">>
           ofRun == <<"codexOptions", "extraArgs">>
<1>1. first \in Seq(Steps) /\ ofSession \in Seq(Steps) /\ ofRun \in Seq(Steps)
  BY DEF Steps
<1>2. \A k \in {"toolFilter", "effort", "mcpServers"} : Among(k, first)
  <2>1. DOMAIN first = 1..4 /\ Len(first) = 4 /\ 1 \in 1..4 /\ 3 \in 1..4 /\ 4 \in 1..4
    OBVIOUS
  <2>2. first[1] = "toolFilter"
    OBVIOUS
  <2>3. first[3] = "effort"
    OBVIOUS
  <2>4. first[4] = "mcpServers"
    OBVIOUS
  <2> HIDE DEF first
  <2> QED BY <2>1, <2>2, <2>3, <2>4 DEF Among
<1>3. Among("schema", ofSession) /\ Among("codexOptions", ofRun)
  <2>1. Len(ofSession) = 2 /\ Len(ofRun) = 2 /\ 1 \in 1..2 /\ 2 \in 1..2
    OBVIOUS
  <2>2. ofSession[2] = "schema"
    OBVIOUS
  <2>3. ofRun[1] = "codexOptions"
    OBVIOUS
  <2> HIDE DEF ofSession, ofRun
  <2> QED BY <2>1, <2>2, <2>3 DEF Among
<1>4. CodexChecks(s) = first \o (IF s THEN ofSession ELSE ofRun)
  BY DEF CodexChecks
<1> HIDE DEF first, ofSession, ofRun
<1>5. CASE s
  BY <1>1, <1>2, <1>3, <1>4, <1>5, ConcatMembers
<1>6. CASE ~s
  BY <1>1, <1>2, <1>3, <1>4, <1>6, ConcatMembers
<1> QED BY <1>5, <1>6

LEMMA OpenCodeListed ==
    ASSUME NEW s \in BOOLEAN
    PROVE  /\ OpenCodeChecks(s) \in Seq(Steps)
           /\ \A k \in {"toolFilter", "effort", "mcpServers"} : Among(k, OpenCodeChecks(s))
<1> DEFINE first == <<"toolFilter", "warnToolFilter", "effort", "warnEffort", "mcpServers">>
           rest == IF s THEN <<>> ELSE <<"stall", "extraArgs">>
<1>1. first \in Seq(Steps) /\ rest \in Seq(Steps)
  <2>1. <<>> \in Seq(Steps)
    OBVIOUS
  <2>2. <<"stall", "extraArgs">> \in Seq(Steps)
    BY DEF Steps
  <2>3. first \in Seq(Steps)
    BY DEF Steps
  <2> QED BY <2>1, <2>2, <2>3
<1>2. \A k \in {"toolFilter", "effort", "mcpServers"} : Among(k, first)
  <2>1. DOMAIN first = 1..5 /\ Len(first) = 5 /\ 1 \in 1..5 /\ 3 \in 1..5 /\ 5 \in 1..5
    OBVIOUS
  <2>2. first[1] = "toolFilter"
    OBVIOUS
  <2>3. first[3] = "effort"
    OBVIOUS
  <2>4. first[5] = "mcpServers"
    OBVIOUS
  <2> HIDE DEF first
  <2> QED BY <2>1, <2>2, <2>3, <2>4 DEF Among
<1>3. OpenCodeChecks(s) = first \o rest
  BY DEF OpenCodeChecks
<1> HIDE DEF first, rest
<1> QED BY <1>1, <1>2, <1>3, ConcatMembers

LEMMA CursorListed ==
    ASSUME NEW s \in BOOLEAN
    PROVE  /\ CursorChecks(s) \in Seq(Steps)
           /\ \A k \in {"toolFilter", "effort", "mcpServers"} : Among(k, CursorChecks(s))
<1> DEFINE first == <<"toolFilter", "warnToolFilter", "effort", "warnEffort", "mcpServers", "warnMcp">>
           rest == IF s THEN <<>> ELSE <<"extraArgs">>
<1>1. first \in Seq(Steps) /\ rest \in Seq(Steps)
  <2>1. <<>> \in Seq(Steps)
    OBVIOUS
  <2>2. <<"extraArgs">> \in Seq(Steps)
    BY DEF Steps
  <2>3. first \in Seq(Steps)
    BY DEF Steps
  <2> QED BY <2>1, <2>2, <2>3
<1>2. \A k \in {"toolFilter", "effort", "mcpServers"} : Among(k, first)
  <2>1. DOMAIN first = 1..6 /\ Len(first) = 6 /\ 1 \in 1..6 /\ 3 \in 1..6 /\ 5 \in 1..6
    OBVIOUS
  <2>2. first[1] = "toolFilter"
    OBVIOUS
  <2>3. first[3] = "effort"
    OBVIOUS
  <2>4. first[5] = "mcpServers"
    OBVIOUS
  <2> HIDE DEF first
  <2> QED BY <2>1, <2>2, <2>3, <2>4 DEF Among
<1>3. CursorChecks(s) = first \o rest
  BY DEF CursorChecks
<1> HIDE DEF first, rest
<1> QED BY <1>1, <1>2, <1>3, ConcatMembers

\* Whatever the runtime, a CLI call is checked for what the module calls malformed, and a
\* call over ACP for what is unsupported.
LEMMA ChecksListed ==
    ASSUME NEW c, IsCall(c)
    PROVE  /\ Checks(c) \in Seq(Steps)
           /\ Among("unsupported", Checks(c))
           /\ c.transport # "acp" =>
                 \A k \in {"toolFilter", "effort", "mcpServers"} : Among(k, Checks(c))
           /\ c.transport # "acp" /\ c.runtime = "claude" => Among("claudeOptions", Checks(c))
           /\ c.transport # "acp" /\ c.runtime = "codex" =>
                 Among("schema", Checks(c)) \/ Among("codexOptions", Checks(c))
<1> DEFINE s == c.kind = "session"
           first == <<"processGroup", "unsupported">>
<1>1. first \in Seq(Steps) /\ Among("unsupported", first)
  <2>1. Len(first) = 2 /\ 2 \in 1..2 /\ first[2] = "unsupported"
    OBVIOUS
  <2>2. first \in Seq(Steps)
    BY DEF Steps
  <2> QED BY <2>1, <2>2 DEF Among
<1>2. s \in BOOLEAN
  OBVIOUS
<1> HIDE DEF s, first
<1>3. CASE c.transport = "acp"
  <2>1. Checks(c) = first \o <<"pilot">>
    BY <1>3 DEF Checks, first
  <2>2. <<"pilot">> \in Seq(Steps)
    BY DEF Steps
  <2> QED BY <1>1, <1>3, <2>1, <2>2, ConcatMembers
<1>4. CASE c.transport # "acp" /\ c.runtime = "claude"
  <2>1. Checks(c) = first \o ClaudeChecks(s)
    BY <1>4 DEF Checks, first, s
  <2> QED BY <1>1, <1>2, <1>4, <2>1, ClaudeListed, ConcatMembers
<1>5. CASE c.transport # "acp" /\ c.runtime = "codex"
  <2>1. Checks(c) = first \o CodexChecks(s)
    BY <1>5 DEF Checks, first, s
  <2> QED BY <1>1, <1>2, <1>5, <2>1, CodexListed, ConcatMembers
<1>6. CASE c.transport # "acp" /\ c.runtime = "opencode"
  <2>1. Checks(c) = first \o OpenCodeChecks(s)
    BY <1>6 DEF Checks, first, s
  <2> QED BY <1>1, <1>2, <1>6, <2>1, OpenCodeListed, ConcatMembers
<1>7. CASE c.transport # "acp" /\ c.runtime = "cursor"
  <2>1. Checks(c) = first \o CursorChecks(s)
    BY <1>7 DEF Checks, first, s
  <2> QED BY <1>1, <1>2, <1>7, <2>1, CursorListed, ConcatMembers
<1> QED BY <1>3, <1>4, <1>5, <1>6, <1>7 DEF IsCall, Runtimes

LEMMA HandshakeListed ==
    /\ HandshakeSteps \in Seq(Steps) /\ HandshakeSteps # <<>>
    /\ Among("mcpServers", HandshakeSteps) /\ Among("effort", HandshakeSteps)
<1>1. HandshakeSteps \in Seq(Steps)
  BY DEF HandshakeSteps, Steps
<1>2. HandshakeSteps[2] = "mcpServers"
  BY DEF HandshakeSteps
<1>3. HandshakeSteps[5] = "effort"
  BY DEF HandshakeSteps
<1>4. Len(HandshakeSteps) = 8 /\ 2 \in 1..8 /\ 5 \in 1..8 /\ HandshakeSteps # <<>>
  BY DEF HandshakeSteps
<1> QED BY <1>1, <1>2, <1>3, <1>4 DEF Among

-----------------------------------------------------------------------------
(* The invariant *)

\* A step of the list L that is not ahead any more has not failed.
Cleared(L) == \A k : Among(k, L) => Among(k, todo) \/ ~Fails(k)

\* What the checks before the child leave out: everything over the CLI, and what no wire
\* can carry over ACP.
Looked == IF Acp THEN ~OneOf(Unsupported) ELSE ~Malformed

PathInd ==
    /\ stage # "idle" => call \in Calls
    /\ stage = "idle" => ~childRuns /\ ~file
    /\ stage = "checking" => Cleared(Checks(call)) /\ ~childRuns /\ ~file /\ carried = {}
    /\ stage = "prepared" => Looked /\ ~childRuns /\ (Acp => ~file)
    /\ stage = "handshake" => Acp /\ Looked /\ childRuns /\ ~file /\ todo # <<>> /\ Cleared(HandshakeSteps)
    /\ stage = "failed" => ~file
    /\ stage \in {"idle", "refused"} => carried = {}

CallInd == NoHalfStart /\ PathInd

\* Whether a step fails depends on the call and on what the front offers, nothing else.
LEMMA FailsAlike ==
    ASSUME UNCHANGED <<call, declared>>
    PROVE  \A k : Fails(k)' <=> Fails(k)
BY DEF Fails, Has, Given, OneOf, Unsupported, Acp, Session, ToolFilterMalformed, EffortMalformed,
       McpMalformed, ClaudeOptionsMalformed, PromptDeliveryMalformed, CodexOptionsMalformed

LEMMA LooksAlike ==
    ASSUME UNCHANGED call
    PROVE  /\ Malformed' <=> Malformed
           /\ Looked' <=> Looked
           /\ Acp' <=> Acp
BY DEF Looked, Malformed, Has, Given, OneOf, Unsupported, Acp, Session, ToolFilterMalformed,
       EffortMalformed, McpMalformed

\* A call that has passed its checks is what they look for, and not malformed.
LEMMA ChecksLook ==
    ASSUME IsCall(call), \A k : Among(k, Checks(call)) => ~Fails(k)
    PROVE  Looked
<1>1. CASE Acp
  BY <1>1, ChecksListed DEF Looked, Fails
<1>2. CASE ~Acp
  <2>1. \A k \in {"toolFilter", "effort", "mcpServers"} : ~Fails(k)
    BY <1>2, ChecksListed DEF Acp
  <2>2. ~ToolFilterMalformed /\ ~EffortMalformed /\ ~McpMalformed
    BY <2>1 DEF Fails
  <2>3. ~Has("outputSchema", "bad")
    <3>1. CASE call.runtime = "claude"
      <4>1. ~Fails("claudeOptions")
        BY <1>2, <3>1, ChecksListed DEF Acp
      <4> QED BY <4>1 DEF Fails, ClaudeOptionsMalformed
    <3>2. CASE call.runtime = "codex"
      <4>1. ~Fails("schema") \/ ~Fails("codexOptions")
        BY <1>2, <3>2, ChecksListed DEF Acp
      <4> QED BY <4>1 DEF Fails, CodexOptionsMalformed
    <3>3. CASE call.runtime \notin {"claude", "codex"}
      <4>1. ~OneOf(Unsupported)
        BY ChecksListed DEF Fails
      <4>2. "outputSchema" \in Unsupported
        BY <1>2, <3>3 DEF Unsupported
      <4> QED BY <4>1, <4>2 DEF OneOf, Has, Given
    <3> QED BY <3>1, <3>2, <3>3
  <2> QED BY <1>2, <2>2, <2>3 DEF Looked, Malformed
<1> QED BY <1>1, <1>2

\* Over ACP the handshake looks at the rest.
LEMMA HandshakeLooks ==
    ASSUME Acp, Looked, ~EffortMalformed, ~McpMalformed
    PROVE  ~Malformed
<1>1. "outputSchema" \in Unsupported
  BY DEF Unsupported
<1>2. ~Has("outputSchema", "bad")
  BY <1>1 DEF Looked, OneOf, Has, Given
<1> QED BY <1>2 DEF Malformed

\* A step passed is one step less ahead.
LEMMA ClearedOn ==
    ASSUME NEW L \in {Checks(call), HandshakeSteps}, Cleared(L), todo \in Seq(Steps), todo # <<>>,
           ~Fails(Head(todo)), todo' = Tail(todo), UNCHANGED <<call, declared>>
    PROVE  \A k : Among(k, L) => Among(k, todo') \/ ~Fails(k)'
<1> SUFFICES ASSUME NEW k, Among(k, L) PROVE Among(k, Tail(todo)) \/ ~Fails(k)'
  OBVIOUS
<1>1. Among(k, todo) \/ ~Fails(k)
  BY DEF Cleared
<1>2. Among(k, todo) => k = Head(todo) \/ Among(k, Tail(todo))
  BY TailMembers
<1>3. Fails(k)' <=> Fails(k)
  BY FailsAlike
<1> QED BY <1>1, <1>2, <1>3

LEMMA InitCall == OptionsInit => CallInd
<1> SUFFICES ASSUME OptionsInit PROVE CallInd
  OBVIOUS
<1>1. NoCall \in {[NoCall EXCEPT !.runtime = r] : r \in Runtimes \cup {"none"}}
  <2>1. NoCall = [NoCall EXCEPT !.runtime = "none"]
    BY DEF NoCall
  <2> QED BY <2>1
<1>2. OptionsTypeOK
  <2>1. todo \in Seq(Steps)
    BY DEF OptionsInit
  <2> QED BY <1>1, <2>1 DEF OptionsInit, OptionsTypeOK, Stages
<1>3. NoHalfStart
  BY <1>2 DEF OptionsInit, NoHalfStart
<1>4. PathInd
  BY DEF OptionsInit, PathInd
<1> QED BY <1>3, <1>4 DEF CallInd

LEMMA CallStep == ASSUME CallInd, NEW c \in Calls, Call(c) PROVE CallInd'
<1>1. /\ stage' = "checking" /\ call' = c /\ todo' = Checks(c) /\ IsCall(c)
      /\ UNCHANGED <<warned, carried, told, declared, file, stray, childRuns>>
      /\ OptionsTypeOK /\ ~childRuns /\ ~file /\ carried = {}
      /\ stray => c.runtime = "claude"
  BY CallsAssumption DEF Call, CallInd, NoHalfStart, PathInd
<1>2. OptionsTypeOK'
  BY <1>1, ChecksListed DEF OptionsTypeOK, Stages
<1>3. NoHalfStart'
  BY <1>1, <1>2 DEF NoHalfStart
<1>4. (Cleared(Checks(call)))'
  BY <1>1 DEF Cleared
<1>5. PathInd'
  BY <1>1, <1>4 DEF PathInd
<1> QED BY <1>3, <1>5 DEF CallInd

LEMMA RefuseStep == CallInd /\ Refuse => CallInd'
<1> SUFFICES ASSUME CallInd, Refuse PROVE CallInd'
  OBVIOUS
<1>1. /\ stage = "checking" /\ stage' = "refused" /\ todo' = <<>>
      /\ UNCHANGED <<call, warned, carried, told, declared, file, stray, childRuns>>
      /\ OptionsTypeOK /\ NoHalfStart /\ ~childRuns /\ ~file /\ carried = {} /\ call \in Calls
  BY DEF Refuse, CallInd, NoHalfStart, PathInd
<1>2. OptionsTypeOK'
  <2>1. todo' \in Seq(Steps)
    BY <1>1
  <2> QED BY <1>1, <2>1 DEF OptionsTypeOK, Stages
<1>3. NoHalfStart'
  BY <1>1, <1>2 DEF NoHalfStart
<1>4. PathInd'
  BY <1>1 DEF PathInd
<1> QED BY <1>3, <1>4 DEF CallInd

LEMMA PassStep == CallInd /\ Pass => CallInd'
<1> SUFFICES ASSUME CallInd, Pass PROVE CallInd'
  OBVIOUS
<1>1. /\ stage = "checking" /\ todo # <<>> /\ ~Fails(Head(todo)) /\ todo' = Tail(todo)
      /\ warned' = warned \cup Warning(Head(todo))
      /\ UNCHANGED <<call, stage, carried, told, declared, file, stray, childRuns>>
      /\ OptionsTypeOK /\ NoHalfStart /\ ~childRuns /\ ~file /\ carried = {} /\ call \in Calls
      /\ Cleared(Checks(call))
  BY DEF Pass, CallInd, NoHalfStart, PathInd
<1>2. OptionsTypeOK'
  <2>1. todo' \in Seq(Steps)
    BY <1>1 DEF OptionsTypeOK
  <2>2. warned' \subseteq {"warnToolFilter", "warnEffort", "warnMcp", "mapEffort"}
    BY <1>1 DEF OptionsTypeOK, Warning
  <2> QED BY <1>1, <2>1, <2>2 DEF OptionsTypeOK, Stages
<1>3. NoHalfStart'
  BY <1>1, <1>2 DEF NoHalfStart
<1>4. (Cleared(Checks(call)))'
  <2>1. \A k : Among(k, Checks(call)) => Among(k, todo') \/ ~Fails(k)'
    BY <1>1, ClearedOn DEF OptionsTypeOK
  <2>2. Checks(call)' = Checks(call)
    BY <1>1
  <2> QED BY <2>1, <2>2 DEF Cleared
<1>5. PathInd'
  BY <1>1, <1>4 DEF PathInd
<1> QED BY <1>3, <1>5 DEF CallInd

LEMMA PrepareStep == CallInd /\ Prepare => CallInd'
<1> SUFFICES ASSUME CallInd, Prepare PROVE CallInd'
  OBVIOUS
<1>1. /\ stage = "checking" /\ todo = <<>> /\ stage' = "prepared"
      /\ UNCHANGED <<call, todo, warned, told, declared, stray, childRuns>>
      /\ OptionsTypeOK /\ NoHalfStart /\ ~childRuns /\ call \in Calls /\ Cleared(Checks(call))
      /\ carried' \subseteq DOMAIN call.opts /\ file' \in BOOLEAN /\ (Acp => ~file')
  BY DEF Prepare, CallInd, NoHalfStart, PathInd
<1>2. IsCall(call)
  BY <1>1, CallsAssumption
<1>3. Looked
  <2>1. \A k : ~Among(k, todo)
    BY <1>1 DEF Among
  <2> QED BY <1>1, <1>2, <2>1, ChecksLook DEF Cleared
<1>4. OptionsTypeOK'
  <2>1. carried' \subseteq Options
    BY <1>1, <1>2 DEF IsCall
  <2> QED BY <1>1, <2>1 DEF OptionsTypeOK, Stages
<1>5. NoHalfStart'
  BY <1>1, <1>4 DEF NoHalfStart
<1>6. PathInd'
  <2>1. Looked' /\ (Acp' <=> Acp)
    BY <1>1, <1>3, LooksAlike
  <2> QED BY <1>1, <2>1 DEF PathInd
<1> QED BY <1>5, <1>6 DEF CallInd

LEMMA SpawnStep == ASSUME CallInd, NEW offer \in Offers, Spawn(offer) PROVE CallInd'
<1>1. /\ stage = "prepared" /\ childRuns' = TRUE
      /\ UNCHANGED <<call, warned, told, file, stray>>
      /\ OptionsTypeOK /\ NoHalfStart /\ Looked /\ (Acp => ~file) /\ call \in Calls
  BY DEF Spawn, CallInd, NoHalfStart, PathInd
<1>2. Looked' /\ (Acp' <=> Acp) /\ (Malformed' <=> Malformed)
  BY <1>1, LooksAlike
<1>3. CASE Acp
  <2>1. /\ stage' = "handshake" /\ todo' = HandshakeSteps /\ declared' = offer
        /\ carried' \subseteq DOMAIN call.opts
    BY <1>3 DEF Spawn
  <2>2. OptionsTypeOK'
    <3>1. carried' \subseteq Options
      BY <1>1, <2>1, CallsAssumption DEF IsCall
    <3>2. declared' \subseteq Offerable
      BY <2>1, OffersAssumption
    <3> QED BY <1>1, <2>1, <3>1, <3>2, HandshakeListed DEF OptionsTypeOK, Stages
  <2>3. NoHalfStart'
    BY <1>1, <1>3, <2>1, <2>2 DEF NoHalfStart
  <2>4. (Cleared(HandshakeSteps))'
    BY <2>1 DEF Cleared
  <2>5. PathInd'
    BY <1>1, <1>2, <1>3, <2>1, <2>4, HandshakeListed DEF PathInd
  <2> QED BY <2>3, <2>5 DEF CallInd
<1>4. CASE ~Acp
  <2>1. stage' = "running" /\ UNCHANGED <<todo, declared, carried>>
    BY <1>4 DEF Spawn
  <2>2. OptionsTypeOK'
    BY <1>1, <2>1 DEF OptionsTypeOK, Stages
  <2>3. ~Malformed'
    BY <1>1, <1>2, <1>4 DEF Looked
  <2>4. NoHalfStart'
    BY <1>1, <2>1, <2>2, <2>3 DEF NoHalfStart
  <2>5. PathInd'
    BY <1>1, <2>1 DEF PathInd
  <2> QED BY <2>4, <2>5 DEF CallInd
<1> QED BY <1>3, <1>4

LEMMA FailureStep == CallInd /\ (SpawnFails \/ HandshakeFails) => CallInd'
<1> SUFFICES ASSUME CallInd, SpawnFails \/ HandshakeFails PROVE CallInd'
  OBVIOUS
<1>1. OptionsTypeOK /\ NoHalfStart /\ PathInd
  BY DEF CallInd, NoHalfStart
<1>2. CASE SpawnFails
  <2>1. /\ stage = "prepared" /\ stage' = "failed" /\ carried' = {} /\ file' = FALSE
        /\ stray' = (stray \/ (file /\ call.runtime = "claude"))
        /\ UNCHANGED <<call, todo, warned, told, declared, childRuns>>
    BY <1>2 DEF SpawnFails
  <2>2. OptionsTypeOK'
    <3>1. stray' \in BOOLEAN
      BY <1>1, <2>1 DEF OptionsTypeOK
    <3> QED BY <1>1, <2>1, <3>1 DEF OptionsTypeOK, Stages
  <2>3. stray' => call.runtime = "claude"
    BY <1>1, <2>1 DEF NoHalfStart
  <2>4. NoHalfStart'
    BY <1>1, <2>1, <2>2, <2>3 DEF NoHalfStart
  <2>5. PathInd'
    BY <1>1, <2>1 DEF PathInd
  <2> QED BY <2>4, <2>5 DEF CallInd
<1>3. CASE HandshakeFails
  <2>1. /\ stage = "handshake" /\ stage' = "refused" /\ todo' = <<>> /\ carried' = {}
        /\ childRuns' = FALSE /\ UNCHANGED <<call, warned, told, declared, file, stray>>
    BY <1>3 DEF HandshakeFails
  <2>2. OptionsTypeOK'
    <3>1. todo' \in Seq(Steps)
      BY <2>1
    <3> QED BY <1>1, <2>1, <3>1 DEF OptionsTypeOK, Stages
  <2>3. NoHalfStart'
    BY <1>1, <2>1, <2>2 DEF NoHalfStart, PathInd
  <2>4. PathInd'
    BY <1>1, <2>1 DEF PathInd
  <2> QED BY <2>3, <2>4 DEF CallInd
<1> QED BY <1>2, <1>3

LEMMA HandshakeStepStep == CallInd /\ HandshakeStep => CallInd'
<1> SUFFICES ASSUME CallInd, HandshakeStep PROVE CallInd'
  OBVIOUS
<1>1. /\ stage = "handshake" /\ todo # <<>> /\ ~Fails(Head(todo)) /\ todo' = Tail(todo)
      /\ stage' = (IF Len(todo) = 1 THEN "running" ELSE "handshake")
      /\ UNCHANGED <<call, warned, declared, file, stray, childRuns>>
      /\ OptionsTypeOK /\ NoHalfStart /\ Acp /\ Looked /\ childRuns /\ ~file /\ call \in Calls
      /\ Cleared(HandshakeSteps)
  BY DEF HandshakeStep, CallInd, NoHalfStart, PathInd
<1>2. Looked' /\ (Acp' <=> Acp) /\ (Malformed' <=> Malformed)
  BY <1>1, LooksAlike
<1>3. \A k : Among(k, HandshakeSteps) => Among(k, todo') \/ ~Fails(k)'
  BY <1>1, ClearedOn DEF OptionsTypeOK
<1>4. todo' \in Seq(Steps) /\ (Len(todo) # 1 => todo' # <<>>) /\ (Len(todo) = 1 => Len(todo') = 0)
  BY <1>1, TailLength DEF OptionsTypeOK
<1>5. OptionsTypeOK'
  <2>1. DOMAIN call.opts \subseteq Options
    BY <1>1, CallsAssumption DEF IsCall
  <2>2. carried' \subseteq Options
    BY <1>1, <2>1 DEF HandshakeStep, OptionsTypeOK
  <2>3. told' \subseteq Options
    BY <1>1, <2>1 DEF HandshakeStep, OptionsTypeOK
  <2> QED BY <1>1, <1>4, <2>2, <2>3 DEF OptionsTypeOK, Stages
<1>6. CASE Len(todo) = 1
  <2>1. \A k : ~Among(k, todo')
    BY <1>4, <1>6 DEF Among
  <2>2. ~Fails("effort") /\ ~Fails("mcpServers")
    <3>1. ~Fails("effort")' /\ ~Fails("mcpServers")'
      BY <1>3, <2>1, HandshakeListed
    <3> QED BY <1>1, <3>1, FailsAlike
  <2>3. ~EffortMalformed /\ ~McpMalformed
    BY <2>2 DEF Fails
  <2>4. ~Malformed'
    BY <1>1, <1>2, <2>3, HandshakeLooks
  <2>5. NoHalfStart'
    BY <1>1, <1>5, <1>6, <2>4 DEF NoHalfStart
  <2>6. PathInd'
    BY <1>1, <1>6 DEF PathInd
  <2> QED BY <2>5, <2>6 DEF CallInd
<1>7. CASE Len(todo) # 1
  <2>1. NoHalfStart'
    BY <1>1, <1>5, <1>7 DEF NoHalfStart
  <2>2. (Cleared(HandshakeSteps))'
    <3>1. HandshakeSteps' = HandshakeSteps
      BY DEF HandshakeSteps
    <3> QED BY <1>3, <3>1 DEF Cleared
  <2>3. PathInd'
    BY <1>1, <1>2, <1>4, <1>7, <2>2 DEF PathInd
  <2> QED BY <2>1, <2>3 DEF CallInd
<1> QED BY <1>6, <1>7

LEMMA FinishStep == CallInd /\ Finish => CallInd'
<1> SUFFICES ASSUME CallInd, Finish PROVE CallInd'
  OBVIOUS
<1>1. /\ stage # "idle" /\ stage' = "idle" /\ call' = [NoCall EXCEPT !.runtime = call.runtime]
      /\ carried' = {} /\ told' = {} /\ declared' = {} /\ file' = FALSE /\ childRuns' = FALSE
      /\ UNCHANGED <<todo, warned, stray>>
      /\ OptionsTypeOK /\ NoHalfStart /\ call \in Calls
  BY DEF Finish, CallInd, NoHalfStart, PathInd
<1>2. call.runtime \in Runtimes /\ call'.runtime = call.runtime
  BY <1>1, CallsAssumption DEF IsCall, NoCall
<1>3. OptionsTypeOK'
  <2>1. call' \in {[NoCall EXCEPT !.runtime = r] : r \in Runtimes \cup {"none"}}
    BY <1>1, <1>2
  <2> QED BY <1>1, <2>1 DEF OptionsTypeOK, Stages
<1>4. NoHalfStart'
  BY <1>1, <1>2, <1>3 DEF NoHalfStart
<1>5. PathInd'
  BY <1>1 DEF PathInd
<1> QED BY <1>4, <1>5 DEF CallInd

LEMMA StutterStep == CallInd /\ UNCHANGED optionVars => CallInd'
<1> SUFFICES ASSUME CallInd, UNCHANGED optionVars PROVE CallInd'
  OBVIOUS
<1>1. UNCHANGED <<call, stage, todo, warned, carried, told, declared, file, stray, childRuns>>
  BY DEF optionVars
<1>2. (Malformed' <=> Malformed) /\ (Looked' <=> Looked) /\ (Acp' <=> Acp)
  BY <1>1, LooksAlike
<1>3. OptionsTypeOK'
  <2>1. OptionsTypeOK
    BY DEF CallInd, NoHalfStart
  <2> QED BY <1>1, <2>1 DEF OptionsTypeOK
<1>4. NoHalfStart'
  <2>1. NoHalfStart
    BY DEF CallInd
  <2> QED BY <1>1, <1>2, <1>3, <2>1 DEF NoHalfStart
<1>5. \A k : Fails(k)' <=> Fails(k)
  BY <1>1, FailsAlike
<1>6. ASSUME Cleared(Checks(call)) PROVE (Cleared(Checks(call)))'
  BY <1>1, <1>5, <1>6 DEF Cleared
<1>7. ASSUME Cleared(HandshakeSteps) PROVE (Cleared(HandshakeSteps))'
  <2>1. HandshakeSteps' = HandshakeSteps
    BY DEF HandshakeSteps
  <2> QED BY <1>1, <1>5, <1>7, <2>1 DEF Cleared
<1>8. PathInd'
  BY <1>1, <1>2, <1>6, <1>7 DEF CallInd, PathInd
<1> QED BY <1>4, <1>8 DEF CallInd

\* Whatever a caller combines and a front offers, a call that an option stops leaves no
\* child, no file and nothing carried, no child runs on malformed options, at whichever step
\* they are found, and only a spawn of Claude that threw leaves a file
\* (runtime/<runtime>-adapter.ts, claude/process.ts:507, runtime/acp/adapter.ts:822-832).
THEOREM NothingStartsByHalves == OptionsSpec => []NoHalfStart
<1>1. CallInd /\ [OptionsNext]_optionVars => CallInd'
  BY CallStep, RefuseStep, PassStep, PrepareStep, SpawnStep, FailureStep, HandshakeStepStep,
     FinishStep, StutterStep DEF OptionsNext
<1>2. CallInd => NoHalfStart
  BY DEF CallInd
<1> QED BY <1>1, <1>2, InitCall, PTL DEF OptionsSpec

-----------------------------------------------------------------------------
(* What the child and the caller have at the end of the path *)

\* The checks behind a CLI call have warned, and the steps behind a handshake have sent
\* what the call set.
Announced ==
    \A k \in Steps : Among(k, Checks(call)) => Among(k, todo) \/ Warning(k) \subseteq warned
SentOff ==
    \A k \in Steps : Among(k, HandshakeSteps) =>
        Among(k, todo) \/ AcpStepEmits(k) \cap DOMAIN call.opts \subseteq carried
DegradedTold ==
    Given("onCallbackError") => Among("report", todo) \/ told = Degraded \cap DOMAIN call.opts
ToldThroughSink == told # {} => Given("onCallbackError") /\ stage # "idle"
Over == \A k \in Steps : ~Among(k, todo)

CarryInd ==
    /\ stage \in {"prepared", "running"} => Over
    /\ stage \in {"checking", "prepared", "running"} /\ ~Acp => Announced
    /\ stage \in {"prepared", "running"} /\ ~Acp => carried = Emits \cap DOMAIN call.opts
    /\ stage \in {"handshake", "running"} /\ Acp =>
          SentOff /\ DegradedTold /\ carried \cap ToolLists = {}

\* What a call warns of and emits is a matter of the call and of the offer.
LEMMA EmitsAlike ==
    ASSUME UNCHANGED <<call, declared>>
    PROVE  /\ \A k : Warning(k)' = Warning(k)
           /\ \A k : AcpStepEmits(k)' = AcpStepEmits(k)
           /\ Emits' = Emits /\ Degraded' = Degraded
<1>1. \A k : Warning(k)' = Warning(k) /\ AcpStepEmits(k)' = AcpStepEmits(k)
  BY DEF Warning, OneOf, Given, Has, Session, AcpStepEmits
<1>2. Emits' = Emits
  BY DEF Emits, Sink, ClaudeEmits, CodexEmits, OpenCodeEmits, CursorEmits, IfNew, KnownMode,
         Bypass, Given, Has, Session
<1>3. Degraded' = Degraded
  BY DEF Degraded, Has, Given
<1> QED BY <1>1, <1>2, <1>3

\* The steps the bookkeeping of the handshake speaks of.
LEMMA HandshakeSends ==
    /\ Among("newSession", HandshakeSteps) /\ Among("setEffort", HandshakeSteps)
    /\ Among("report", HandshakeSteps)
    /\ {"newSession", "setEffort", "report"} \subseteq Steps
<1>1. HandshakeSteps[3] = "newSession"
  BY DEF HandshakeSteps
<1>2. HandshakeSteps[6] = "setEffort"
  BY DEF HandshakeSteps
<1>3. HandshakeSteps[8] = "report"
  BY DEF HandshakeSteps
<1>4. Len(HandshakeSteps) = 8 /\ 3 \in 1..8 /\ 6 \in 1..8 /\ 8 \in 1..8
  BY DEF HandshakeSteps
<1>5. {"newSession", "setEffort", "report"} \subseteq Steps
  BY DEF Steps
<1> QED BY <1>1, <1>2, <1>3, <1>4, <1>5 DEF Among

\* The CLI adapters without a tool filter look at the tool lists in order to warn, and
\* Cursor's looks at everything it does not carry.
LEMMA WarnersListed ==
    ASSUME NEW s \in BOOLEAN
    PROVE  /\ Among("mapEffort", ClaudeChecks(s))
           /\ Among("warnToolFilter", CodexChecks(s))
           /\ Among("warnToolFilter", OpenCodeChecks(s))
           /\ \A k \in {"warnToolFilter", "warnEffort", "warnMcp"} : Among(k, CursorChecks(s))
<1>1. Among("mapEffort", ClaudeChecks(s))
  <2> DEFINE first == IF s THEN <<>> ELSE <<"promptDelivery">>
             rest == <<"permissionMode", "toolFilter", "effort", "mapEffort", "mcpServers",
                       "claudeOptions", "extraArgs">>
  <2>1. first \in Seq(Steps)
    <3>1. <<>> \in Seq(Steps) /\ <<"promptDelivery">> \in Seq(Steps)
      BY DEF Steps
    <3> QED BY <3>1
  <2>2. rest \in Seq(Steps)
    BY DEF Steps
  <2>3. rest[4] = "mapEffort" /\ Len(rest) = 7 /\ 4 \in 1..7
    OBVIOUS
  <2>4. ClaudeChecks(s) = first \o rest
    BY DEF ClaudeChecks
  <2> HIDE DEF first, rest
  <2>5. Among("mapEffort", rest)
    BY <2>3 DEF Among
  <2> QED BY <2>1, <2>2, <2>4, <2>5, ConcatMembers
<1>2. Among("warnToolFilter", CodexChecks(s))
  <2> DEFINE first == <<"toolFilter", "warnToolFilter", "effort", "mcpServers">>
             rest == IF s THEN <<"ephemeralResume", "schema">> ELSE <<"codexOptions", "extraArgs">>
  <2>1. rest \in Seq(Steps)
    <3>1. <<"ephemeralResume", "schema">> \in Seq(Steps) /\ <<"codexOptions", "extraArgs">> \in Seq(Steps)
      BY DEF Steps
    <3> QED BY <3>1
  <2>2. first \in Seq(Steps)
    BY DEF Steps
  <2>3. first[2] = "warnToolFilter" /\ Len(first) = 4 /\ 2 \in 1..4
    OBVIOUS
  <2>4. CodexChecks(s) = first \o rest
    BY DEF CodexChecks
  <2> HIDE DEF first, rest
  <2>5. Among("warnToolFilter", first)
    BY <2>3 DEF Among
  <2> QED BY <2>1, <2>2, <2>4, <2>5, ConcatMembers
<1>3. Among("warnToolFilter", OpenCodeChecks(s))
  <2> DEFINE first == <<"toolFilter", "warnToolFilter", "effort", "warnEffort", "mcpServers">>
             rest == IF s THEN <<>> ELSE <<"stall", "extraArgs">>
  <2>1. rest \in Seq(Steps)
    <3>1. <<>> \in Seq(Steps) /\ <<"stall", "extraArgs">> \in Seq(Steps)
      BY DEF Steps
    <3> QED BY <3>1
  <2>2. first \in Seq(Steps)
    BY DEF Steps
  <2>3. first[2] = "warnToolFilter" /\ Len(first) = 5 /\ 2 \in 1..5
    OBVIOUS
  <2>4. OpenCodeChecks(s) = first \o rest
    BY DEF OpenCodeChecks
  <2> HIDE DEF first, rest
  <2>5. Among("warnToolFilter", first)
    BY <2>3 DEF Among
  <2> QED BY <2>1, <2>2, <2>4, <2>5, ConcatMembers
<1>4. \A k \in {"warnToolFilter", "warnEffort", "warnMcp"} : Among(k, CursorChecks(s))
  <2> DEFINE first == <<"toolFilter", "warnToolFilter", "effort", "warnEffort", "mcpServers", "warnMcp">>
             rest == IF s THEN <<>> ELSE <<"extraArgs">>
  <2>1. rest \in Seq(Steps)
    <3>1. <<>> \in Seq(Steps) /\ <<"extraArgs">> \in Seq(Steps)
      BY DEF Steps
    <3> QED BY <3>1
  <2>2. first \in Seq(Steps)
    BY DEF Steps
  <2>3. first[2] = "warnToolFilter" /\ first[4] = "warnEffort" /\ first[6] = "warnMcp"
    OBVIOUS
  <2>4. Len(first) = 6 /\ 2 \in 1..6 /\ 4 \in 1..6 /\ 6 \in 1..6
    OBVIOUS
  <2>5. CursorChecks(s) = first \o rest
    BY DEF CursorChecks
  <2> HIDE DEF first, rest
  <2>6. \A k \in {"warnToolFilter", "warnEffort", "warnMcp"} : Among(k, first)
    BY <2>3, <2>4 DEF Among
  <2> QED BY <2>1, <2>2, <2>5, <2>6, ConcatMembers
<1> QED BY <1>1, <1>2, <1>3, <1>4

\* What a CLI call should be warned of is looked at on its way.
LEMMA WarnersAmongChecks ==
    ASSUME NEW c, IsCall(c), c.transport # "acp"
    PROVE  /\ c.runtime = "claude" => Among("mapEffort", Checks(c))
           /\ c.runtime # "claude" => Among("warnToolFilter", Checks(c))
           /\ c.runtime = "cursor" => Among("warnEffort", Checks(c)) /\ Among("warnMcp", Checks(c))
<1> DEFINE s == c.kind = "session"
           first == <<"processGroup", "unsupported">>
<1>1. first \in Seq(Steps)
  BY DEF Steps
<1>2. s \in BOOLEAN
  OBVIOUS
<1>3. /\ c.runtime = "claude" => Checks(c) = first \o ClaudeChecks(s)
      /\ c.runtime = "codex" => Checks(c) = first \o CodexChecks(s)
      /\ c.runtime = "opencode" => Checks(c) = first \o OpenCodeChecks(s)
      /\ c.runtime = "cursor" => Checks(c) = first \o CursorChecks(s)
  BY DEF Checks, first, s
<1> HIDE DEF s, first
<1>4. CASE c.runtime = "claude"
  <2>1. ClaudeChecks(s) \in Seq(Steps)
    BY <1>2, ClaudeListed
  <2>2. Among("mapEffort", ClaudeChecks(s))
    BY <1>2, WarnersListed
  <2>3. Among("mapEffort", first \o ClaudeChecks(s))
    BY <1>1, <2>1, <2>2, ConcatMembers
  <2> QED BY <1>3, <1>4, <2>3
<1>5. CASE c.runtime = "codex"
  <2>1. CodexChecks(s) \in Seq(Steps)
    BY <1>2, CodexListed
  <2>2. Among("warnToolFilter", CodexChecks(s))
    BY <1>2, WarnersListed
  <2>3. Among("warnToolFilter", first \o CodexChecks(s))
    BY <1>1, <2>1, <2>2, ConcatMembers
  <2> QED BY <1>3, <1>5, <2>3
<1>6. CASE c.runtime = "opencode"
  <2>1. OpenCodeChecks(s) \in Seq(Steps)
    BY <1>2, OpenCodeListed
  <2>2. Among("warnToolFilter", OpenCodeChecks(s))
    BY <1>2, WarnersListed
  <2>3. Among("warnToolFilter", first \o OpenCodeChecks(s))
    BY <1>1, <2>1, <2>2, ConcatMembers
  <2> QED BY <1>3, <1>6, <2>3
<1>7. CASE c.runtime = "cursor"
  <2>1. CursorChecks(s) \in Seq(Steps)
    BY <1>2, CursorListed
  <2>2. \A k \in {"warnToolFilter", "warnEffort", "warnMcp"} : Among(k, CursorChecks(s))
    BY <1>2, WarnersListed
  <2>3. \A k \in {"warnToolFilter", "warnEffort", "warnMcp"} : Among(k, first \o CursorChecks(s))
    BY <1>1, <2>1, <2>2, ConcatMembers
  <2> QED BY <1>3, <1>7, <2>3
<1> QED BY <1>4, <1>5, <1>6, <1>7 DEF IsCall, Runtimes


\* The checks: a step passed has printed its warning.
LEMMA CheckingCarries ==
    ASSUME CallInd, CarryInd, (\E c \in Calls : Call(c)) \/ Refuse \/ Pass \/ Prepare
    PROVE  CarryInd'
<1>0. OptionsTypeOK
  BY DEF CallInd, NoHalfStart
<1>1. ASSUME NEW c \in Calls, Call(c) PROVE CarryInd'
  <2>1. stage' = "checking" /\ call' = c /\ todo' = Checks(c)
    BY <1>1 DEF Call
  <2> QED BY <2>1 DEF CarryInd, Announced
<1>2. CASE Refuse
  <2>1. stage' = "refused"
    BY <1>2 DEF Refuse
  <2> QED BY <2>1 DEF CarryInd
<1>3. CASE Pass
  <2>1. /\ stage = "checking" /\ stage' = "checking" /\ todo # <<>> /\ todo' = Tail(todo)
        /\ warned' = warned \cup Warning(Head(todo)) /\ UNCHANGED <<call, declared>>
        /\ todo \in Seq(Steps)
    BY <1>0, <1>3 DEF Pass, OptionsTypeOK
  <2>2. \A k \in Steps : Among(k, todo) => k = Head(todo) \/ Among(k, todo')
    BY <2>1, TailMembers
  <2>3. ~Acp => Announced'
    BY <2>1, <2>2, EmitsAlike DEF CarryInd, Announced
  <2>4. Acp' <=> Acp
    BY <2>1, LooksAlike
  <2> QED BY <2>1, <2>3, <2>4 DEF CarryInd
<1>4. CASE Prepare
  <2>1. /\ stage = "checking" /\ todo = <<>> /\ stage' = "prepared"
        /\ carried' = (IF Acp THEN {} ELSE Emits \cap DOMAIN call.opts)
        /\ UNCHANGED <<call, todo, warned, declared>>
    BY <1>4 DEF Prepare
  <2>2. Over'
    BY <2>1 DEF Over, Among
  <2>3. ~Acp => Announced'
    BY <2>1, EmitsAlike DEF CarryInd, Announced
  <2>4. ~Acp => carried' = Emits' \cap DOMAIN call'.opts
    BY <2>1, EmitsAlike
  <2>5. Acp' <=> Acp
    BY <2>1, LooksAlike
  <2> QED BY <2>1, <2>2, <2>3, <2>4, <2>5 DEF CarryInd
<1> QED BY <1>1, <1>2, <1>3, <1>4

\* The spawn: a CLI call runs with what its argv carries, and over ACP the handshake begins
\* with what the spawn carries.
LEMMA SpawnCarries ==
    ASSUME CallInd, CarryInd, (\E offer \in Offers : Spawn(offer)) \/ SpawnFails
    PROVE  CarryInd'
<1>1. ASSUME NEW offer \in Offers, Spawn(offer) PROVE CarryInd'
  <2>1. stage = "prepared" /\ UNCHANGED <<call, warned, told>>
    BY <1>1 DEF Spawn
  <2>2. Acp' <=> Acp
    BY <2>1, LooksAlike
  <2>3. CASE Acp
    <3>1. /\ stage' = "handshake" /\ todo' = HandshakeSteps
          /\ carried' = AcpSpawnEmits \cap DOMAIN call.opts
      BY <1>1, <2>3 DEF Spawn
    <3>2. SentOff' /\ DegradedTold'
      BY <3>1, HandshakeSends DEF SentOff, DegradedTold, HandshakeSteps
    <3>3. carried' \cap ToolLists = {}
      BY <3>1 DEF AcpSpawnEmits, ToolLists
    <3> QED BY <2>2, <2>3, <3>1, <3>2, <3>3 DEF CarryInd
  <2>4. CASE ~Acp
    <3>1. stage' = "running" /\ UNCHANGED <<todo, declared, carried>>
      BY <1>1, <2>4 DEF Spawn
    <3>2. Over' /\ Announced'
      BY <2>1, <2>4, <3>1, EmitsAlike DEF CarryInd, Over, Announced
    <3>3. carried' = Emits' \cap DOMAIN call'.opts
      BY <2>1, <2>4, <3>1, EmitsAlike DEF CarryInd
    <3> QED BY <2>2, <2>4, <3>1, <3>2, <3>3 DEF CarryInd
  <2> QED BY <2>3, <2>4
<1>2. CASE SpawnFails
  <2>1. stage' = "failed"
    BY <1>2 DEF SpawnFails
  <2> QED BY <2>1 DEF CarryInd
<1> QED BY <1>1, <1>2

\* The handshake: a step passed has sent what the call set and the front offers, and the
\* last one has told the caller's sink.
LEMMA HandshakeCarries ==
    ASSUME CallInd, CarryInd, HandshakeStep
    PROVE  CarryInd'
<1>1. /\ stage = "handshake" /\ todo # <<>> /\ todo' = Tail(todo) /\ todo \in Seq(Steps)
      /\ carried' = carried \cup (AcpStepEmits(Head(todo)) \cap DOMAIN call.opts)
      /\ told' = (IF Head(todo) = "report" /\ Given("onCallbackError")
                  THEN Degraded \cap DOMAIN call.opts ELSE told)
      /\ stage' = (IF Len(todo) = 1 THEN "running" ELSE "handshake")
      /\ UNCHANGED <<call, declared>>
      /\ Acp
  BY DEF HandshakeStep, CallInd, NoHalfStart, OptionsTypeOK, PathInd
<1>2. Acp' /\ (Given("onCallbackError")' <=> Given("onCallbackError"))
  BY <1>1, LooksAlike DEF Given
<1>3. \A k \in Steps : Among(k, todo) => k = Head(todo) \/ Among(k, todo')
  BY <1>1, TailMembers
<1>4. SentOff /\ DegradedTold /\ carried \cap ToolLists = {}
  BY <1>1 DEF CarryInd
<1>5. SentOff'
  <2>1. HandshakeSteps' = HandshakeSteps
    BY DEF HandshakeSteps
  <2>2. \A k \in Steps : Among(k, HandshakeSteps) =>
           Among(k, todo') \/ AcpStepEmits(k) \cap DOMAIN call.opts \subseteq carried'
    BY <1>1, <1>3, <1>4 DEF SentOff
  <2> QED BY <1>1, <2>1, <2>2, EmitsAlike DEF SentOff
<1>6. DegradedTold'
  <2>1. Given("onCallbackError") => Among("report", todo') \/ told' = Degraded \cap DOMAIN call.opts
    BY <1>1, <1>3, <1>4, HandshakeSends DEF DegradedTold
  <2> QED BY <1>1, <1>2, <2>1, EmitsAlike DEF DegradedTold
<1>7. carried' \cap ToolLists = {}
  <2>1. \A k : AcpStepEmits(k) \cap ToolLists = {}
    BY DEF AcpStepEmits, ToolLists
  <2> QED BY <1>1, <1>4, <2>1
<1>8. stage' = "running" => Over'
  <2>1. Len(todo) = 1 => Len(todo') = 0
    BY <1>1, TailLength
  <2> QED BY <1>1, <2>1 DEF Over, Among
<1> QED BY <1>1, <1>2, <1>5, <1>6, <1>7, <1>8 DEF CarryInd

LEMMA StepCarries == CallInd /\ CarryInd /\ [OptionsNext]_optionVars => CarryInd'
<1> SUFFICES ASSUME CallInd, CarryInd, [OptionsNext]_optionVars PROVE CarryInd'
  OBVIOUS
<1>1. CASE HandshakeFails \/ Finish
  <2>1. stage' \in {"refused", "idle"}
    BY <1>1 DEF HandshakeFails, Finish
  <2> QED BY <2>1 DEF CarryInd
<1>2. CASE UNCHANGED optionVars
  <2>1. UNCHANGED <<call, stage, todo, warned, carried, told, declared>>
    BY <1>2 DEF optionVars
  <2>2. (Acp' <=> Acp) /\ (Given("onCallbackError")' <=> Given("onCallbackError"))
    BY <2>1, LooksAlike DEF Given
  <2>3. HandshakeSteps' = HandshakeSteps
    BY DEF HandshakeSteps
  <2>4. (Announced => Announced') /\ (SentOff => SentOff') /\ (Over => Over')
    BY <2>1, <2>3, EmitsAlike DEF Announced, SentOff, Over
  <2>5. DegradedTold => DegradedTold'
    BY <2>1, <2>2, EmitsAlike DEF DegradedTold
  <2> QED BY <2>1, <2>2, <2>4, <2>5, EmitsAlike DEF CarryInd
<1> QED BY <1>1, <1>2, CheckingCarries, SpawnCarries, HandshakeCarries DEF OptionsNext

\* Nothing is told but through the sink of the call under way.
LEMMA StepTells == ToldThroughSink /\ [OptionsNext]_optionVars => ToldThroughSink'
<1> SUFFICES ASSUME ToldThroughSink, [OptionsNext]_optionVars PROVE ToldThroughSink'
  OBVIOUS
<1>1. ASSUME NEW c \in Calls, Call(c) PROVE told' = {}
  BY <1>1 DEF Call, ToldThroughSink
<1>2. CASE Refuse \/ Pass \/ Prepare \/ SpawnFails \/ HandshakeFails
  BY <1>2 DEF Refuse, Pass, Prepare, SpawnFails, HandshakeFails, ToldThroughSink, Given
<1>3. ASSUME NEW offer \in Offers, Spawn(offer) PROVE ToldThroughSink'
  BY <1>3 DEF Spawn, ToldThroughSink, Given
<1>4. CASE HandshakeStep
  BY <1>4 DEF HandshakeStep, ToldThroughSink, Given
<1>5. CASE Finish
  BY <1>5 DEF Finish, ToldThroughSink
<1>6. CASE UNCHANGED optionVars
  BY <1>6 DEF optionVars, ToldThroughSink, Given
<1> QED BY <1>1, <1>2, <1>3, <1>4, <1>5, <1>6 DEF OptionsNext, ToldThroughSink

\* Over the CLI an option of an advertised capability is in the argv and one of another has
\* been warned of.
LEMMA CliHolds ==
    ASSUME IsCall(call), stage = "running", ~Acp, CarryInd
    PROVE  CapabilitiesHold
<1>1. carried = Emits \cap DOMAIN call.opts
  BY DEF CarryInd
<1>2. \A k \in Steps : Among(k, Checks(call)) => Warning(k) \subseteq warned
  BY DEF CarryInd, Announced, Over
<1>3. {"mapEffort", "warnToolFilter", "warnEffort", "warnMcp"} \subseteq Steps
  BY DEF Steps
<1>4. /\ call.runtime = "claude" => Warning("mapEffort") \subseteq warned
      /\ call.runtime # "claude" => Warning("warnToolFilter") \subseteq warned
      /\ call.runtime = "cursor" =>
            Warning("warnEffort") \subseteq warned /\ Warning("warnMcp") \subseteq warned
  BY <1>2, <1>3, WarnersAmongChecks DEF Acp
<1>5. ASSUME NEW o \in Governed \cap DOMAIN call.opts
      PROVE  IF Advertised(o) THEN o \in carried \/ Inherited(o)
             ELSE o \notin carried /\ Latch(o) \in warned
  <2>1. Given(o)
    BY <1>5 DEF Given
  <2>2. CASE call.runtime = "claude"
    <3>1. Advertised(o)
      BY <1>5, <2>2 DEF Governed, Advertised
    <3>2. o \in ClaudeEmits \/ Inherited(o)
      BY <1>5, <2>2 DEF Governed, ClaudeEmits, IfNew, Inherited, ToolLists
    <3> QED BY <1>1, <1>5, <2>2, <3>1, <3>2 DEF Emits
  <2>3. CASE call.runtime \in {"codex", "opencode"}
    <3>1. CASE o \in ToolLists
      <4>1. ~Advertised(o) /\ Latch(o) = "warnToolFilter"
        BY <2>3, <3>1 DEF Advertised, Latch
      <4>2. Latch(o) \in warned
        BY <1>4, <1>5, <2>3, <3>1, <4>1 DEF Warning, OneOf
      <4>3. o \notin Emits
        BY <2>3, <3>1 DEF ToolLists, Emits, Sink, CodexEmits, OpenCodeEmits, IfNew, KnownMode, Bypass
      <4> QED BY <1>1, <4>1, <4>2, <4>3
    <3>2. CASE o \in {"reasoningEffort", "mcpServers"}
      <4>1. Advertised(o)
        BY <2>3, <3>2 DEF Advertised, ToolLists
      <4>2. o \in Emits
        BY <2>3, <3>2 DEF Emits, CodexEmits, OpenCodeEmits
      <4> QED BY <1>1, <1>5, <4>1, <4>2
    <3> QED BY <1>5, <3>1, <3>2 DEF Governed
  <2>4. CASE call.runtime = "cursor"
    <3>1. ~Advertised(o)
      BY <2>4 DEF Advertised
    <3>2. Latch(o) \in warned
      BY <1>4, <1>5, <2>1, <2>4 DEF Latch, Governed, ToolLists, Warning, OneOf
    <3>3. o \notin Emits
      BY <1>5, <2>4 DEF Governed, ToolLists, Emits, Sink, CursorEmits, IfNew, Bypass
    <3> QED BY <1>1, <3>1, <3>2, <3>3
  <2> QED BY <2>2, <2>3, <2>4 DEF IsCall, Runtimes
<1>6. ASSUME Has("reasoningEffort", "minimal"), call.runtime = "claude", "reasoningEffort" \in carried
      PROVE  "mapEffort" \in warned
  <2>1. "reasoningEffort" \in ClaudeEmits
    BY <1>1, <1>6 DEF Emits, Sink
  <2>2. Session \/ ~Given("resumeSessionId")
    BY <2>1 DEF ClaudeEmits, IfNew, ToolLists
  <2> QED BY <1>4, <1>6, <2>2 DEF Warning
<1> QED BY <1>5, <1>6 DEF CapabilitiesHold

\* Over ACP the steps of the handshake have sent what is advertised, and the sink, if there
\* is one, was told of the tool lists.
LEMMA AcpHolds ==
    ASSUME IsCall(call), stage = "running", Acp, CarryInd, ToldThroughSink
    PROVE  CapabilitiesHold
<1>1. Over /\ SentOff /\ DegradedTold /\ carried \cap ToolLists = {}
  BY DEF CarryInd
<1>2. /\ AcpStepEmits("newSession") \cap DOMAIN call.opts \subseteq carried
      /\ AcpStepEmits("setEffort") \cap DOMAIN call.opts \subseteq carried
      /\ told = IF Given("onCallbackError") THEN Degraded \cap DOMAIN call.opts ELSE {}
  BY <1>1, HandshakeSends DEF Over, SentOff, DegradedTold, ToldThroughSink
<1>3. ASSUME NEW o \in Governed \cap DOMAIN call.opts, call.runtime # "cursor"
      PROVE  IF Advertised(o) THEN o \in carried \/ Inherited(o)
             ELSE /\ o \notin carried
                  /\ o \in told <=> Given("onCallbackError") /\ ~Has(o, "empty")
  <2>1. CASE o \in ToolLists
    <3>1. ~Advertised(o)
      BY <2>1 DEF Advertised
    <3>2. o \in Degraded <=> ~Has(o, "empty")
      BY <2>1 DEF Degraded, ToolLists
    <3> QED BY <1>1, <1>2, <1>3, <2>1, <3>1, <3>2
  <2>2. CASE o = "mcpServers"
    <3>1. Advertised(o)
      BY <1>3, <2>2 DEF Advertised, ToolLists
    <3>2. o \in AcpStepEmits("newSession")
      BY <2>2 DEF AcpStepEmits
    <3> QED BY <1>2, <1>3, <3>1, <3>2
  <2>3. CASE o = "reasoningEffort"
    <3>1. Advertised(o)
      BY <1>3, <2>3 DEF Advertised, ToolLists
    <3>2. o \in AcpStepEmits("setEffort") \/ Inherited(o)
      BY <2>3 DEF AcpStepEmits, Inherited
    <3> QED BY <1>2, <1>3, <3>1, <3>2
  <2> QED BY <1>3, <2>1, <2>2, <2>3 DEF Governed
<1> QED BY <1>3 DEF CapabilitiesHold

\* Whatever a caller combines and a front offers: when a call runs, an option of an
\* advertised capability has reached the child or the front, and one of a capability that is
\* not advertised has not; over the CLI this process has warned of it, and over ACP the
\* caller's sink was told of it, and nobody is where there is no sink
\* (runtime/<runtime>-adapter.ts, runtime/acp/adapter.ts:80-97).
THEOREM AdvertisedIsHonoured == OptionsSpec => []CapabilitiesHold
<1>1. CallInd /\ [OptionsNext]_optionVars => CallInd'
  BY CallStep, RefuseStep, PassStep, PrepareStep, SpawnStep, FailureStep, HandshakeStepStep,
     FinishStep, StutterStep DEF OptionsNext
<1>2. OptionsInit => CarryInd /\ ToldThroughSink
  BY DEF OptionsInit, CarryInd, ToldThroughSink
<1>3. CallInd /\ CarryInd /\ ToldThroughSink => CapabilitiesHold
  <2> SUFFICES ASSUME CallInd, CarryInd, ToldThroughSink, stage = "running" PROVE CapabilitiesHold
    BY DEF CapabilitiesHold
  <2>1. IsCall(call)
    BY CallsAssumption DEF CallInd, PathInd
  <2> QED BY <2>1, CliHolds, AcpHolds
<1> QED BY <1>1, <1>2, <1>3, InitCall, StepCarries, StepTells, PTL DEF OptionsSpec

-----------------------------------------------------------------------------
(* The client of `codex app-server`: no request is left unsettled, and each *)
(* gets its own answer, for every number of requests and lines.             *)

\* Another fact about sequences.
LEMMA SequenceProperties ==
    ASSUME NEW S, NEW s \in Seq(S)
    PROVE  /\ Len(s) \in Nat
           /\ \A i \in 1..Len(s) : s[i] \in S
           /\ \A T : S \subseteq T => s \in Seq(T)
OBVIOUS

Answer == {"waiting", "rejected", "undefined"} \cup Outcome

\* Settling promises answers the given ones and leaves the others.
LEMMA SettleProperties ==
    ASSUME NEW S, NEW a \in Answer \ {"waiting"}, answer \in Seq(Answer), Settle(S, a)
    PROVE  /\ answer' \in Seq(Answer)
           /\ Len(answer') = Len(answer)
           /\ \A id \in Requests : answer'[id] =
                 IF id \in S /\ answer[id] = "waiting" THEN a ELSE answer[id]
<1> DEFINE new(id) == IF id \in S /\ answer[id] = "waiting" THEN a ELSE answer[id]
<1>1. answer' = [id \in 1..Len(answer) |-> new(id)]
  BY DEF Settle, Requests
<1>2. \A id \in 1..Len(answer) : new(id) \in Answer
  BY SequenceProperties
<1> HIDE DEF new
<1>3. answer' \in [1..Len(answer) -> Answer]
  BY <1>1, <1>2
<1>4. answer' \in Seq(Answer) /\ Len(answer') = Len(answer)
  BY <1>3, FunctionIsSequence, SequenceProperties
<1>5. \A id \in Requests : answer'[id] = new(id)
  BY <1>1 DEF Requests
<1> QED BY <1>4, <1>5 DEF new

-----------------------------------------------------------------------------
(* No request is left behind *)

\* The initial state satisfies the client's invariant.
LEMMA InitClientInv == ClientInit => ClientInv
<1> SUFFICES ASSUME ClientInit PROVE ClientInv
  OBVIOUS
<1>1. \A S : <<>> \in Seq(S)
  OBVIOUS
<1>2. Len(answer) = 0 /\ Len(sent) = 0 /\ Requests = {}
  BY DEF ClientInit, Requests
<1>3. ClientTypeOK
  <2>1. read \in 0..Len(sent) /\ Len(answer) <= MaxRequest
    BY <1>2, CodexAssumption DEF ClientInit
  <2> QED BY <1>1, <2>1 DEF ClientInit, ClientTypeOK
<1>4. PendingIsWaiting /\ StdinShut /\ NothingPendingAfterDone
  BY <1>2 DEF ClientInit, PendingIsWaiting, StdinShut, NothingPendingAfterDone
<1> QED BY <1>3, <1>4 DEF ClientInv

\* request() preserves the client's invariant.
LEMMA RequestClientInv == ClientInv /\ Request => ClientInv'
<1> SUFFICES ASSUME ClientInv, Request PROVE ClientInv'
  OBVIOUS
<1> USE DEF ClientInv, ClientTypeOK
<1>1. /\ answer' \in Seq(Answer)
      /\ Len(answer') = Len(answer) + 1
      /\ \A i \in 1..Len(answer) : answer'[i] = answer[i]
      /\ answer'[Len(answer) + 1] = "waiting"
      /\ Len(answer) \in Nat
  BY AppendProperties, SequenceProperties DEF Request, Answer
<1>2. Requests' = Requests \cup {Len(answer) + 1} /\ Len(answer) + 1 \notin Requests
  BY <1>1 DEF Requests
<1>3. writing' \in Seq({Notification} \cup Requests')
  <2>1. writing \in Seq({Notification} \cup Requests')
    BY <1>2, SequenceProperties
  <2> QED BY <2>1, <1>2, AppendProperties DEF Request
<1>4. /\ pending' \subseteq Requests' /\ held' \subseteq Requests'
      /\ Len(answer') <= MaxRequest
  <2>1. Len(answer') <= MaxRequest
    BY <1>1, CodexAssumption DEF Request
  <2> QED BY <2>1, <1>2 DEF Request, childVars
<1>5. ClientTypeOK'
  BY <1>1, <1>3, <1>4 DEF Request, Answer, childVars, pumpVars, stopVars
<1>6. PendingIsWaiting'
  <2>1. \A id \in Requests : id \in 1..Len(answer)
    BY DEF Requests
  <2> QED BY <1>1, <1>2, <2>1 DEF PendingIsWaiting, Request
<1>7. finalizer' = "waiting"
  BY DEF Request, StdinShut, stopVars
<1>8. StdinShut' /\ NothingPendingAfterDone'
  BY <1>7 DEF Request, StdinShut, NothingPendingAfterDone, stopVars
<1> QED BY <1>5, <1>6, <1>8

\* Settling a set of requests and taking it out of the map keeps the two
\* in step.
LEMMA SettleKeepsPending ==
    ASSUME ClientTypeOK, PendingIsWaiting, NEW S, NEW a \in Answer \ {"waiting"},
           Settle(S, a), pending' = pending \ S
    PROVE  PendingIsWaiting' /\ pending' \subseteq Requests'
<1>1. /\ Len(answer') = Len(answer)
      /\ \A id \in Requests : answer'[id] =
            IF id \in S /\ answer[id] = "waiting" THEN a ELSE answer[id]
  BY SettleProperties DEF ClientTypeOK, Answer
<1>2. Requests' = Requests
  BY <1>1 DEF Requests
<1> QED BY <1>1, <1>2 DEF PendingIsWaiting

\* The steps that leave the promises alone preserve the client's invariant.
LEMMA OtherClientInv ==
    ASSUME ClientInv,
           Notify \/ CloseStdin \/ Abort \/ ConsumerLeaves \/ Flush \/ ChildAnswers
             \/ ChildSpeaks \/ ChildExits \/ PumpEnds \/ Finalize \/ WriterCloses
    PROVE  ClientInv'
<1> USE DEF ClientInv, ClientTypeOK
<1>1. answer' = answer /\ pending' = pending /\ Requests' = Requests
  BY DEF Notify, CloseStdin, Abort, ConsumerLeaves, Flush, ChildAnswers, ChildSpeaks,
         ChildWrites, ChildExits, PumpEnds, Finalize, WriterCloses, callVars, Requests
<1>2. finalizer' = "done" <=> finalizer = "done"
  BY DEF Notify, CloseStdin, Abort, ConsumerLeaves, Flush, ChildAnswers, ChildSpeaks,
         ChildWrites, ChildExits, PumpEnds, Finalize, WriterCloses, stopVars
<1>3. PendingIsWaiting' /\ NothingPendingAfterDone'
  BY <1>1, <1>2 DEF PendingIsWaiting, NothingPendingAfterDone
<1>4. StdinShut'
  <2> USE DEF StdinShut, childVars, pumpVars, stopVars
  <2>1. CASE Notify \/ CloseStdin \/ Abort \/ ConsumerLeaves \/ Flush
    BY <2>1 DEF Notify, CloseStdin, Abort, ConsumerLeaves, Flush
  <2>2. CASE ChildAnswers \/ ChildSpeaks
    <3>1. /\ subprocess' = subprocess /\ pump' = pump /\ finalizer' = finalizer
          /\ stdinClosed' = stdinClosed /\ aborted' = aborted
      <4>1. CASE ChildAnswers
        BY <4>1 DEF ChildAnswers, ChildWrites
      <4>2. CASE ChildSpeaks
        BY <4>2 DEF ChildSpeaks, ChildWrites
      <4> QED BY <2>2, <4>1, <4>2
    <3> QED BY <3>1
  <2>3. CASE ChildExits \/ PumpEnds \/ Finalize \/ WriterCloses
    <3>1. CASE ChildExits \/ PumpEnds
      BY <3>1 DEF ChildExits, PumpEnds
    <3>2. CASE Finalize
      BY <3>2 DEF Finalize, ExitSeen
    <3>3. CASE WriterCloses
      BY <3>3 DEF WriterCloses
    <3> QED BY <2>3, <3>1, <3>2, <3>3
  <2> QED BY <2>1, <2>2, <2>3
<1>5. ClientTypeOK'
  <2>1. CASE Notify
    BY <2>1, <1>1, AppendProperties DEF Notify, pumpVars, childVars, stopVars
  <2>2. CASE CloseStdin \/ Abort \/ ConsumerLeaves
    BY <2>2, <1>1 DEF CloseStdin, Abort, ConsumerLeaves, pumpVars, childVars, stopVars
  <2>3. CASE Flush
    BY <2>3, <1>1, TailProperties DEF Flush, pumpVars, childVars, stopVars
  <2>4. ASSUME NEW line \in Line, ChildWrites(line), held' \subseteq held
        PROVE  ClientTypeOK'
    <3>1. sent' \in Seq(Line) /\ Len(sent') = Len(sent) + 1 /\ Len(sent) \in Nat
      BY <2>4, AppendProperties, SequenceProperties DEF ChildWrites
    <3> QED BY <3>1, <2>4, <1>1 DEF ChildWrites, pumpVars, stopVars
  <2>5. CASE ChildAnswers
    <3>1. PICK id \in held, outcome \in Outcome :
             /\ ChildWrites([kind |-> "response", id |-> id, outcome |-> outcome])
             /\ held' = held \ {id}
      BY <2>5 DEF ChildAnswers
    <3>2. id \in 1..MaxRequest
      BY CodexAssumption, SequenceProperties DEF Requests
    <3>3. [kind |-> "response", id |-> id, outcome |-> outcome] \in Line
      BY <3>2 DEF Line, Response
    <3> QED BY <3>1, <3>3, <2>4
  <2>6. CASE ChildSpeaks
    BY <2>6, <2>4 DEF ChildSpeaks, Line
  <2>7. CASE ChildExits \/ PumpEnds \/ Finalize \/ WriterCloses
    BY <2>7, <1>1 DEF ChildExits, PumpEnds, Finalize, WriterCloses, pumpVars,
                      childVars, stopVars
  <2> QED BY <2>1, <2>2, <2>3, <2>5, <2>6, <2>7
<1> QED BY <1>3, <1>4, <1>5

\* A broken pipe preserves the client's invariant.
LEMMA WriteFailsClientInv == ClientInv /\ WriteFails => ClientInv'
<1> SUFFICES ASSUME ClientInv, WriteFails PROVE ClientInv'
  OBVIOUS
<1> USE DEF ClientInv, ClientTypeOK
<1>1. /\ answer' \in Seq(Answer)
      /\ Len(answer') = Len(answer)
      /\ \A id \in Requests : answer'[id] =
            IF id \in Unwritten /\ answer[id] = "waiting" THEN "rejected" ELSE answer[id]
  BY SettleProperties DEF WriteFails, Answer
<1>2. PendingIsWaiting' /\ pending' \subseteq Requests' /\ Requests' = Requests
  BY <1>1, SettleKeepsPending DEF WriteFails, Answer, Requests
<1>3. writing' \in Seq({Notification} \cup Requests')
  BY DEF WriteFails
<1>4. ClientTypeOK'
  BY <1>1, <1>2, <1>3 DEF WriteFails, Answer, childVars, pumpVars, stopVars
<1>5. StdinShut'
  BY DEF WriteFails, StdinShut, childVars, pumpVars, stopVars
<1>6. NothingPendingAfterDone'
  BY <1>1, <1>2 DEF WriteFails, NothingPendingAfterDone, stopVars
<1> QED BY <1>2, <1>4, <1>5, <1>6

\* Handling a line preserves the client's invariant.
LEMMA ReadLineClientInv == ClientInv /\ ReadLine => ClientInv'
<1> SUFFICES ASSUME ClientInv, ReadLine PROVE ClientInv'
  OBVIOUS
<1> USE DEF ClientInv, ClientTypeOK
<1> DEFINE line == sent[read + 1]
<1>0. /\ read + 1 \in 1..Len(sent) /\ read' = read + 1
      /\ line \in Line
      /\ HandleId(line) \/ HandleNote(line) \/ HandleJunk(line)
  BY SequenceProperties DEF ReadLine
<1>1. /\ answer' \in Seq(Answer) /\ Len(answer') = Len(answer)
      /\ PendingIsWaiting' /\ pending' \subseteq Requests'
  <2>1. CASE HandleId(line)
    <3>1. Carried(line) \in Answer \ {"waiting"}
      <4>1. CASE line \in Response
        BY <4>1 DEF Carried, Answer, Response, Outcome
      <4>2. CASE line \notin Response
        <5>1. line.kind # "response"
          BY <4>2, <1>0, CodexAssumption DEF Line, Ask, Note, Odd
        <5> QED BY <5>1 DEF Carried, Answer
      <4> QED BY <4>1, <4>2
    <3>2. pending' = pending \ ({line.id} \cap pending)
      BY <2>1 DEF HandleId
    <3> QED BY <2>1, <3>1, <3>2, SettleProperties, SettleKeepsPending DEF HandleId, Answer
  <2>2. CASE HandleNote(line) \/ HandleJunk(line)
    BY <2>2 DEF HandleNote, HandleJunk, callVars, Answer, PendingIsWaiting, Requests
  <2> QED BY <1>0, <2>1, <2>2
<1>2. notes' \in Seq(1..read') /\ pump' \in {"reading", "ended"}
  <2>1. notes \in Seq(1..read') /\ read + 1 \in 1..read'
    BY <1>0, SequenceProperties
  <2>2. notes' = notes \/ notes' = Append(notes, read + 1)
    BY <1>0 DEF HandleId, HandleNote, HandleJunk
  <2>3. Append(notes, read + 1) \in Seq(1..read')
    BY <2>1, AppendProperties
  <2>4. pump' \in {"reading", "ended"}
    BY <1>0 DEF HandleId, HandleNote, HandleJunk
  <2> QED BY <2>1, <2>2, <2>3, <2>4
<1>3. Requests' = Requests
  BY <1>1 DEF Requests
<1>4. ClientTypeOK'
  BY <1>0, <1>1, <1>2, <1>3 DEF ReadLine, Answer, childVars, stopVars
<1>5. StdinShut' /\ NothingPendingAfterDone'
  BY DEF ReadLine, StdinShut, NothingPendingAfterDone, childVars, stopVars
<1> QED BY <1>1, <1>4, <1>5

\* The last step of the `done` task preserves the client's invariant.
LEMMA RejectPendingClientInv == ClientInv /\ RejectPending => ClientInv'
<1> SUFFICES ASSUME ClientInv, RejectPending PROVE ClientInv'
  OBVIOUS
<1> USE DEF ClientInv, ClientTypeOK
<1>1. /\ answer' \in Seq(Answer) /\ Len(answer') = Len(answer)
      /\ \A id \in Requests : answer'[id] =
            IF id \in pending /\ answer[id] = "waiting" THEN "rejected" ELSE answer[id]
  BY SettleProperties DEF RejectPending, Answer
<1>2. PendingIsWaiting' /\ pending' \subseteq Requests' /\ Requests' = Requests
  <2>1. pending' = pending \ pending
    BY DEF RejectPending
  <2> QED BY <1>1, <2>1, SettleKeepsPending DEF RejectPending, Answer, Requests
<1>3. ClientTypeOK'
  BY <1>1, <1>2 DEF RejectPending, Answer, childVars
<1>4. StdinShut'
  BY DEF RejectPending, StdinShut, childVars
<1>5. NothingPendingAfterDone'
  BY <1>1, <1>2 DEF NothingPendingAfterDone, PendingIsWaiting
<1> QED BY <1>2, <1>3, <1>4, <1>5

\* Every step preserves the client's invariant.
LEMMA StepClientInv == ClientInv /\ [ClientNext]_clientVars => ClientInv'
<1> SUFFICES ASSUME ClientInv, [ClientNext]_clientVars PROVE ClientInv'
  OBVIOUS
<1>1. CASE ClientCalls
  BY <1>1, RequestClientInv, OtherClientInv DEF ClientCalls
<1>2. CASE Server
  BY <1>2, OtherClientInv DEF Server
<1>3. CASE Tasks
  BY <1>3, WriteFailsClientInv, ReadLineClientInv, RejectPendingClientInv,
     OtherClientInv DEF Tasks
<1>4. CASE UNCHANGED clientVars
  BY <1>4 DEF ClientInv, ClientTypeOK, PendingIsWaiting, StdinShut, NothingPendingAfterDone,
              Requests, clientVars, childVars, pumpVars, callVars, stopVars
<1> QED BY <1>1, <1>2, <1>3, <1>4 DEF ClientNext

\* The client's invariant, whatever the server sends, `null` lines and
\* colliding ids included.
THEOREM ClientInvariant == ClientSpec => []ClientInv
BY InitClientInv, StepClientInv, PTL DEF ClientSpec

\* No request() promise outlives `done`.
THEOREM EveryRequestSettles == ClientSpec => []NothingPendingAfterDone
BY ClientInvariant, PTL DEF ClientInv

-----------------------------------------------------------------------------
(* No notification is lost or overtaken *)

\* Reading a line keeps the notifications in order.
LEMMA ReadLineNotes == NotesInv /\ ReadLine => NotesInOrder'
<1> SUFFICES ASSUME NotesInv, ReadLine PROVE NotesInOrder'
  OBVIOUS
<1> DEFINE line == sent[read + 1]
<1>1. /\ read \in Nat /\ read' = read + 1 /\ sent' = sent /\ feed' = feed
      /\ notes \in Seq(1..read) /\ Len(notes) \in Nat
      /\ \A i \in 1..Len(notes) : notes[i] \in 1..read
  <2>1. notes \in Seq(1..read) /\ read \in 0..Len(sent) /\ sent \in Seq(Line)
    BY DEF NotesInv, ClientInv, ClientTypeOK
  <2>2. read' = read + 1 /\ sent' = sent /\ feed' = feed
    BY DEF ReadLine, childVars
  <2> QED BY <2>1, <2>2, SequenceProperties
<1>2. feed # "closed" /\ feed \in {"open", "left", "closed"}
  BY DEF NotesInv, ClientInv, ClientTypeOK, StdinShut, ReadLine
<1>3. \/ line.kind = "note" /\ notes' = IF feed = "open" THEN Append(notes, read + 1) ELSE notes
      \/ line.kind # "note" /\ notes' = notes
  BY CodexAssumption DEF ReadLine, HandleId, HasId, HandleNote, HandleJunk
<1>4. {k \in 1..read' : sent[k].kind = "note"} =
        {k \in 1..read : sent[k].kind = "note"} \cup
        (IF line.kind = "note" THEN {read + 1} ELSE {})
  BY <1>1
<1>5. CASE line.kind = "note" /\ feed = "open"
  <2>1. notes' = Append(notes, read + 1)
    BY <1>3, <1>5
  <2>2. /\ Len(notes') = Len(notes) + 1
        /\ \A i \in 1..Len(notes) : notes'[i] = notes[i]
        /\ notes'[Len(notes) + 1] = read + 1
    BY <2>1, <1>1, AppendProperties
  <2>3. {notes'[i] : i \in 1..Len(notes')} = {notes[i] : i \in 1..Len(notes)} \cup {read + 1}
    <3>1. 1..Len(notes') = 1..Len(notes) \cup {Len(notes) + 1}
      BY <2>2, <1>1
    <3> QED BY <3>1, <2>2
  <2>4. \A i, j \in 1..Len(notes') : i < j => notes'[i] < notes'[j]
    <3>1. \A i, j \in 1..Len(notes) : i < j => notes[i] < notes[j]
      BY DEF NotesInv, NotesInOrder
    <3>2. \A i \in 1..Len(notes) : notes[i] < read + 1
      BY <1>1
    <3>3. ASSUME NEW i \in 1..Len(notes'), NEW j \in 1..Len(notes'), i < j
          PROVE  notes'[i] < notes'[j]
      <4> DEFINE last == Len(notes)
      <4>1. last \in Nat /\ Len(notes') = last + 1
        BY <1>1, <2>2
      <4>2. i \in 1..last /\ (j \in 1..last \/ j = last + 1)
        <5> HIDE DEF last
        <5> QED BY <4>1, <3>3
      <4> QED BY <4>2, <3>1, <3>2, <2>2, <3>3
    <3> QED BY <3>3
  <2>5. feed' # "left" => {notes'[i] : i \in 1..Len(notes')} =
                            {k \in 1..read' : sent'[k].kind = "note"}
    BY <2>3, <1>1, <1>4, <1>5 DEF NotesInv, NotesInOrder
  <2> QED BY <2>4, <2>5 DEF NotesInOrder
<1>6. CASE line.kind # "note" \/ feed # "open"
  <2>1. notes' = notes
    BY <1>3, <1>6
  <2> QED BY <2>1, <1>1, <1>2, <1>4, <1>6 DEF NotesInv, NotesInOrder
<1> QED BY <1>5, <1>6

\* Every step preserves the invariant of the notifications.
LEMMA StepNotesInv == NotesInv /\ [ClientNext]_clientVars => NotesInv'
<1> SUFFICES ASSUME NotesInv, [ClientNext]_clientVars PROVE NotesInv'
  OBVIOUS
<1>1. ClientInv'
  BY StepClientInv DEF NotesInv
<1>2. (feed = "closed" => finalizer = "done")'
  <2> USE DEF NotesInv, ClientInv, StdinShut, stopVars, pumpVars
  <2>1. CASE ClientCalls
    BY <2>1 DEF ClientCalls, Request, Notify, CloseStdin, Abort, ConsumerLeaves
  <2>2. CASE Server
    BY <2>2 DEF Server, Flush, ChildAnswers, ChildSpeaks, ChildExits, ChildWrites
  <2>3. CASE Tasks
    BY <2>3 DEF Tasks, WriteFails, ReadLine, PumpEnds, Finalize, WriterCloses, RejectPending
  <2>4. CASE UNCHANGED clientVars
    BY <2>4 DEF clientVars
  <2> QED BY <2>1, <2>2, <2>3, <2>4 DEF ClientNext
<1>3. NotesInOrder'
  <2>1. CASE ReadLine
    BY <2>1, ReadLineNotes
  <2>2. ASSUME notes' = notes, read' = read, feed' # "left" => feed # "left",
               \A k \in 1..read : sent'[k] = sent[k]
        PROVE  NotesInOrder'
    <3>1. {k \in 1..read' : sent'[k].kind = "note"} = {k \in 1..read : sent[k].kind = "note"}
      BY <2>2
    <3> QED BY <2>2, <3>1 DEF NotesInv, NotesInOrder
  <2>3. CASE ClientCalls
    BY <2>3, <2>2 DEF ClientCalls, Request, Notify, CloseStdin, Abort, ConsumerLeaves,
                      childVars, pumpVars
  <2>4. ASSUME NEW line, ChildWrites(line) PROVE NotesInOrder'
    <3>1. sent \in Seq(Line) /\ read \in 0..Len(sent) /\ Len(sent) \in Nat
      BY SequenceProperties DEF NotesInv, ClientInv, ClientTypeOK
    <3>2. \A k \in 1..Len(sent) : sent'[k] = sent[k]
      BY <2>4, <3>1 DEF ChildWrites
    <3> QED BY <3>1, <3>2, <2>2, <2>4 DEF ChildWrites, pumpVars
  <2>5. CASE Server
    <3>1. CASE ChildAnswers \/ ChildSpeaks
      BY <3>1, <2>4 DEF ChildAnswers, ChildSpeaks
    <3>2. CASE Flush \/ ChildExits
      BY <3>2, <2>2 DEF Flush, ChildExits, pumpVars
    <3> QED BY <2>5, <3>1, <3>2 DEF Server
  <2>6. CASE WriteFails \/ PumpEnds \/ Finalize \/ WriterCloses \/ RejectPending
    BY <2>6, <2>2 DEF WriteFails, PumpEnds, Finalize, WriterCloses, RejectPending,
                      childVars, pumpVars
  <2>7. CASE UNCHANGED clientVars
    BY <2>7, <2>2 DEF clientVars, childVars, pumpVars
  <2> QED BY <2>1, <2>3, <2>5, <2>6, <2>7 DEF ClientNext, Tasks
<1> QED BY <1>1, <1>2, <1>3 DEF NotesInv

\* The invariant of the notifications, for any number of lines and whatever
\* their interleaving with calls and the exit.
THEOREM NotesInvariant == ClientSpec => []NotesInv
<1>1. ClientInit => NotesInv
  <2> SUFFICES ASSUME ClientInit PROVE NotesInv
    OBVIOUS
  <2>1. Len(notes) = 0 /\ read = 0 /\ feed = "open"
    BY DEF ClientInit
  <2> QED BY <2>1, InitClientInv DEF NotesInv, NotesInOrder
<1> QED BY <1>1, StepNotesInv, PTL DEF ClientSpec

-----------------------------------------------------------------------------
(* Every answer is the request's own *)

\* The initial state satisfies the invariant.
LEMMA InitAnswerInv == ClientInit => AnswerInv
<1> SUFFICES ASSUME ClientInit PROVE AnswerInv
  OBVIOUS
<1>1. Len(writing) = 0 /\ Len(sent) = 0 /\ read = 0 /\ Requests = {}
  BY DEF ClientInit, Requests
<1>2. InOnePlace
  BY <1>1 DEF ClientInit, InOnePlace, Unwritten
<1>3. AwaitedInPipe /\ AnswersMatch /\ RunningKeepsPromises
  BY <1>1 DEF ClientInit, AwaitedInPipe, AnswersMatch, RunningKeepsPromises
<1> QED BY <1>2, <1>3, InitClientInv DEF AnswerInv

\* The lines of the writer after one is appended or taken.
LEMMA WriterProperties ==
    ASSUME ClientTypeOK
    PROVE  /\ \A id : writing' = Append(writing, id) /\ id \in Requests' \cup {Notification}
                 /\ Requests \subseteq Requests' =>
                 Unwritten' = Unwritten \cup ({id} \ {Notification})
           /\ writing # <<>> /\ writing' = Tail(writing) => Unwritten' \subseteq Unwritten
           /\ Unwritten \subseteq Requests
<1> USE DEF ClientTypeOK
<1>0. \A x : /\ x \in Unwritten <=>
                    x # Notification /\ \E i \in 1..Len(writing) : writing[i] = x
             /\ x \in Unwritten' <=>
                    x # Notification /\ \E i \in 1..Len(writing') : writing'[i] = x
  BY DEF Unwritten
<1>1. ASSUME NEW id \in Requests' \cup {Notification}, writing' = Append(writing, id),
             Requests \subseteq Requests'
      PROVE  Unwritten' = Unwritten \cup ({id} \ {Notification})
  <2>1. writing \in Seq({Notification} \cup Requests')
    BY <1>1, SequenceProperties
  <2>2. /\ Len(writing') = Len(writing) + 1 /\ Len(writing) \in Nat
        /\ \A i \in 1..Len(writing) : writing'[i] = writing[i]
        /\ writing'[Len(writing) + 1] = id
    BY <2>1, <1>1, AppendProperties, SequenceProperties
  <2>3. ASSUME NEW x PROVE (\E i \in 1..Len(writing') : writing'[i] = x) <=>
                           x = id \/ \E i \in 1..Len(writing) : writing[i] = x
    <3>1. \A i : i \in 1..Len(writing') <=> i \in 1..Len(writing) \/ i = Len(writing) + 1
      BY <2>2
    <3> QED BY <3>1, <2>2
  <2>4. \A x : x \in Unwritten' <=> x \in Unwritten \/ (x = id /\ x # Notification)
    BY <2>3, <1>0
  <2> HIDE DEF Notification
  <2> QED BY <2>4
<1>2. ASSUME writing # <<>>, writing' = Tail(writing) PROVE Unwritten' \subseteq Unwritten
  <2>1. /\ Len(writing') = Len(writing) - 1 /\ Len(writing) \in Nat
        /\ \A i \in 1..Len(writing') : writing'[i] = writing[i + 1]
    BY <1>2, TailProperties, SequenceProperties
  <2>2. ASSUME NEW i \in 1..Len(writing') PROVE i + 1 \in 1..Len(writing)
    BY <2>1
  <2>3. ASSUME NEW x \in Unwritten' PROVE x \in Unwritten
    <3>1. PICK i \in 1..Len(writing') : writing'[i] = x
      BY <2>3, <1>0
    <3>2. writing[i + 1] = x /\ i + 1 \in 1..Len(writing) /\ x # Notification
      BY <3>1, <2>1, <2>2, <2>3, <1>0
    <3> QED BY <3>2, <1>0
  <2> QED BY <2>3
<1>3. Unwritten \subseteq Requests
  BY SequenceProperties DEF Unwritten
<1> QED BY <1>1, <1>2, <1>3

\* request() preserves it: the new id is nowhere yet.
LEMMA RequestAnswerInv == AnswerInv /\ Request => AnswerInv'
<1> SUFFICES ASSUME AnswerInv, Request PROVE AnswerInv'
  OBVIOUS
<1> USE DEF AnswerInv
<1>0. ClientTypeOK /\ ClientInv'
  BY RequestClientInv DEF ClientInv
<1>1. /\ Len(answer) \in Nat
      /\ Len(answer') = Len(answer) + 1
      /\ \A i \in 1..Len(answer) : answer'[i] = answer[i]
      /\ answer'[Len(answer) + 1] = "waiting"
  BY <1>0, AppendProperties, SequenceProperties DEF Request, ClientTypeOK, Answer
<1>2. /\ Requests' = Requests \cup {Len(answer) + 1}
      /\ Len(answer) + 1 \notin Requests /\ Len(answer) + 1 # Notification
      /\ \A id \in Requests : answer'[id] = answer[id]
  BY <1>1 DEF Requests, Notification
<1>3. /\ sent' = sent /\ held' = held /\ read' = read /\ pump' = pump /\ subprocess' = subprocess
      /\ writing' = Append(writing, Len(answer) + 1)
      /\ held \subseteq Requests /\ read \in 0..Len(sent) /\ Len(sent) \in Nat
  BY <1>0, SequenceProperties DEF Request, ClientTypeOK, childVars, pumpVars
<1>4. Unwritten' = Unwritten \cup {Len(answer) + 1} /\ Unwritten \subseteq Requests
  BY <1>0, <1>2, <1>3, WriterProperties
<1>5. InOnePlace'
  <2>1. \A i, j \in 1..Len(writing') : writing'[i] = writing'[j] => i = j
    <3>1. writing \in Seq({Notification} \cup Requests')
      BY <1>0, <1>2, SequenceProperties DEF ClientTypeOK
    <3>2. /\ Len(writing') = Len(writing) + 1 /\ Len(writing) \in Nat
          /\ \A i \in 1..Len(writing) : writing'[i] = writing[i]
          /\ writing'[Len(writing) + 1] = Len(answer) + 1
      BY <3>1, <1>2, <1>3, AppendProperties, SequenceProperties
    <3>3. \A i \in 1..Len(writing) : writing[i] # Len(answer) + 1
      BY <1>0, <1>2, SequenceProperties DEF ClientTypeOK
    <3>4. \A i \in 1..Len(writing') : i \in 1..Len(writing) \/ i = Len(writing) + 1
      BY <3>2
    <3> QED BY <3>2, <3>3, <3>4 DEF InOnePlace
  <2> QED BY <2>1, <1>2, <1>3, <1>4 DEF InOnePlace
<1>6. AwaitedInPipe'
  <2>1. /\ \A k \in (read + 1)..Len(sent) : k \in 1..Len(sent)
        /\ NullRead' <=> NullRead
    BY <1>3 DEF NullRead
  <2> QED BY <2>1, <1>2, <1>3 DEF AwaitedInPipe, InOnePlace
<1>7. AnswersMatch'
  <2>1. \A k \in 1..read : IsResponse(sent[k]) => sent[k].id \in Requests
    BY <1>3 DEF InOnePlace
  <2>2. answer'[Len(answer) + 1] \notin Outcome \cup {"undefined"}
    BY <1>1 DEF Outcome
  <2> QED BY <2>1, <2>2, <1>2, <1>3 DEF AnswersMatch
<1>8. RunningKeepsPromises'
  BY <1>1, <1>2, <1>3 DEF RunningKeepsPromises
<1> QED BY <1>0, <1>5, <1>6, <1>7, <1>8

\* The steps that touch neither the promises nor the lines preserve it.
LEMMA QuietAnswerInv ==
    ASSUME AnswerInv,
           Notify \/ CloseStdin \/ Abort \/ ConsumerLeaves \/ Flush \/ ChildExits
             \/ PumpEnds \/ Finalize \/ WriterCloses
    PROVE  AnswerInv'
<1> USE DEF AnswerInv
<1>0. ClientTypeOK /\ ClientInv'
  BY OtherClientInv DEF ClientInv
<1>1. answer' = answer /\ sent' = sent /\ read' = read /\ Requests' = Requests
  BY DEF Notify, CloseStdin, Abort, ConsumerLeaves, Flush, ChildExits, PumpEnds, Finalize,
         WriterCloses, callVars, childVars, pumpVars, Requests
<1>2. AnswersMatch'
  BY <1>1 DEF AnswersMatch
<1>3. AwaitedInPipe'
  <2>1. pump' = "ended" => (subprocess' = "exited" /\ read = Len(sent)) \/ NullRead
    BY DEF AwaitedInPipe, Notify, CloseStdin, Abort, ConsumerLeaves, Flush, ChildExits,
           PumpEnds, Finalize, WriterCloses, childVars, pumpVars
  <2>2. pump = "ended" => pump' = "ended"
    BY DEF Notify, CloseStdin, Abort, ConsumerLeaves, Flush, ChildExits,
           PumpEnds, Finalize, WriterCloses, childVars, pumpVars
  <2> QED BY <2>1, <2>2, <1>1 DEF AwaitedInPipe, NullRead
<1>4. InOnePlace'
  <2>1. CASE Notify
    <3>1. writing' = Append(writing, Notification) /\ held' = held
      BY <2>1 DEF Notify, childVars
    <3>2. Unwritten' = Unwritten
      BY <3>1, <1>0, <1>1, WriterProperties
    <3>3. \A i, j \in 1..Len(writing') : writing'[i] = writing'[j] => i = j
      <4>1. /\ Len(writing') = Len(writing) + 1 /\ Len(writing) \in Nat
            /\ \A i \in 1..Len(writing) : writing'[i] = writing[i]
            /\ writing'[Len(writing) + 1] = Notification
        BY <3>1, <1>0, AppendProperties, SequenceProperties DEF ClientTypeOK
      <4>2. \A i \in 1..Len(writing') : i \in 1..Len(writing) \/ i = Len(writing) + 1
        BY <4>1
      <4> QED BY <4>1, <4>2, <2>1 DEF InOnePlace, Notify
    <3> QED BY <3>1, <3>2, <3>3, <1>1 DEF InOnePlace
  <2>2. CASE Flush
    <3>1. /\ writing # <<>> /\ writing' = Tail(writing)
          /\ held' = held \cup ({Head(writing)} \ {Notification})
      BY <2>2 DEF Flush
    <3>2. /\ Head(writing) = writing[1]
          /\ Len(writing') = Len(writing) - 1 /\ Len(writing) \in Nat \ {0}
          /\ \A i \in 1..Len(writing') : writing'[i] = writing[i + 1]
      BY <3>1, <1>0, TailProperties DEF ClientTypeOK
    <3>3. \A i \in 1..Len(writing') : i + 1 \in 1..Len(writing)
      BY <3>2
    <3>4. Unwritten' \subseteq Unwritten
      BY <3>1, <1>0, WriterProperties
    <3>5. Head(writing) \notin Unwritten'
      <4>1. ASSUME NEW i \in 1..Len(writing') PROVE writing'[i] # writing[1]
        <5>1. i + 1 # 1 /\ 1 \in 1..Len(writing) /\ i + 1 \in 1..Len(writing)
          BY <3>2, <3>3
        <5> QED BY <5>1, <3>2 DEF InOnePlace
      <4> QED BY <4>1, <3>2 DEF Unwritten
    <3>6. Head(writing) # Notification => Head(writing) \in Unwritten
      BY <3>2 DEF Unwritten
    <3>7. \A i, j \in 1..Len(writing') : writing'[i] = writing'[j] => i = j
      <4>1. ASSUME NEW i \in 1..Len(writing'), NEW j \in 1..Len(writing'),
                   writing'[i] = writing'[j]
            PROVE  i = j
        <5>1. i + 1 = j + 1
          BY <4>1, <3>2, <3>3 DEF InOnePlace
        <5> QED BY <5>1
      <4> QED BY <4>1
    <3>8. held' \cup Unwritten' \subseteq held \cup Unwritten /\ Unwritten' \cap held' = {}
      <4> HIDE DEF Notification
      <4> QED BY <3>1, <3>4, <3>5, <3>6 DEF InOnePlace
    <3> QED BY <3>7, <3>8, <1>1 DEF InOnePlace
  <2>3. CASE CloseStdin \/ Abort \/ ConsumerLeaves \/ ChildExits
               \/ PumpEnds \/ Finalize \/ WriterCloses
    <3>1. writing' = writing /\ held' = held
      BY <2>3 DEF CloseStdin, Abort, ConsumerLeaves, ChildExits, PumpEnds, Finalize,
                  WriterCloses, childVars
    <3> QED BY <3>1, <1>1 DEF InOnePlace, Unwritten
  <2> QED BY <2>1, <2>2, <2>3
<1>5. RunningKeepsPromises'
  <2>1. subprocess' = "running" => subprocess = "running"
    BY DEF Notify, CloseStdin, Abort, ConsumerLeaves, Flush, ChildExits, PumpEnds,
           Finalize, WriterCloses, childVars
  <2> QED BY <2>1, <1>1 DEF RunningKeepsPromises
<1> QED BY <1>0, <1>2, <1>3, <1>4, <1>5

\* A line of the child preserves it, an answer because only a request the
\* server holds is answered.
LEMMA ChildAnswerInv == AnswerInv /\ (ChildAnswers \/ ChildSpeaks) => AnswerInv'
<1> SUFFICES ASSUME AnswerInv, ChildAnswers \/ ChildSpeaks PROVE AnswerInv'
  OBVIOUS
<1> USE DEF AnswerInv
<1>0. ClientTypeOK /\ ClientInv' /\ Unwritten \subseteq Requests /\ held \subseteq Requests
  BY OtherClientInv, WriterProperties DEF ClientInv, ClientTypeOK
<1>1. /\ writing' = writing /\ answer' = answer /\ read' = read /\ pump' = pump
      /\ subprocess' = subprocess /\ subprocess = "running" /\ Requests' = Requests
      /\ Unwritten' = Unwritten
  <2>1. CASE ChildAnswers
    BY <2>1 DEF ChildAnswers, ChildWrites, callVars, pumpVars, Requests, Unwritten
  <2>2. CASE ChildSpeaks
    BY <2>2 DEF ChildSpeaks, ChildWrites, callVars, pumpVars, Requests, Unwritten
  <2> QED BY <2>1, <2>2
<1>2. \E line \in Line :
         /\ sent' = Append(sent, line)
         /\ \/ /\ IsResponse(line) /\ line.id \in held
               /\ held' = held \ {line.id}
            \/ ~IsResponse(line) /\ held' = held
  <2>1. CASE ChildAnswers
    <3>1. PICK id \in held, outcome \in Outcome :
             /\ ChildWrites([kind |-> "response", id |-> id, outcome |-> outcome])
             /\ held' = held \ {id}
      BY <2>1 DEF ChildAnswers
    <3>2. id \in 1..MaxRequest
      BY <1>0, CodexAssumption, SequenceProperties DEF Requests, ClientTypeOK
    <3>3. [kind |-> "response", id |-> id, outcome |-> outcome] \in Line
      BY <3>2 DEF Line, Response
    <3> QED BY <3>1, <3>3 DEF ChildWrites, IsResponse
  <2>2. CASE ChildSpeaks
    <3>1. PICK line \in Ask \cup Note \cup Odd : ChildWrites(line)
      BY <2>2 DEF ChildSpeaks
    <3>2. ~IsResponse(line)
      BY <3>1, CodexAssumption DEF IsResponse, Ask, Note, Odd
    <3> QED BY <3>1, <3>2, <2>2 DEF ChildSpeaks, ChildWrites, Line
  <2> QED BY <2>1, <2>2
<1>3. PICK line \in Line :
         /\ sent' = Append(sent, line)
         /\ \/ /\ IsResponse(line) /\ line.id \in held
               /\ held' = held \ {line.id}
            \/ ~IsResponse(line) /\ held' = held
  BY <1>2
<1>4. /\ Len(sent') = Len(sent) + 1 /\ Len(sent) \in Nat /\ read \in 0..Len(sent)
      /\ \A k \in 1..Len(sent) : sent'[k] = sent[k]
      /\ sent'[Len(sent) + 1] = line
      /\ \A k \in 1..Len(sent') : k \in 1..Len(sent) \/ k = Len(sent) + 1
      /\ \A k \in 1..read : k \in 1..Len(sent)
  BY <1>0, <1>3, AppendProperties, SequenceProperties DEF ClientTypeOK
<1>5. InOnePlace'
  <2>1. Unwritten' \cap held' = {}
    BY <1>1, <1>3 DEF InOnePlace
  <2>2. ASSUME NEW k \in 1..Len(sent'), IsResponse(sent'[k])
        PROVE  sent'[k].id \in Requests' \ (held' \cup Unwritten')
    <3>1. CASE k \in 1..Len(sent)
      BY <3>1, <2>2, <1>1, <1>3, <1>4 DEF InOnePlace
    <3>2. CASE k = Len(sent) + 1
      BY <3>2, <2>2, <1>0, <1>1, <1>3, <1>4 DEF InOnePlace
    <3> QED BY <3>1, <3>2, <1>4
  <2>3. ASSUME NEW j \in 1..Len(sent'), NEW k \in 1..Len(sent'),
               IsResponse(sent'[j]), IsResponse(sent'[k]), sent'[j].id = sent'[k].id
        PROVE  j = k
    <3>1. ASSUME NEW i \in 1..Len(sent), IsResponse(sent[i]), IsResponse(line)
          PROVE  sent[i].id # line.id
      BY <3>1, <1>3 DEF InOnePlace
    <3> QED BY <3>1, <2>3, <1>4 DEF InOnePlace
  <2> QED BY <2>1, <2>2, <2>3, <1>1 DEF InOnePlace
<1>6. AwaitedInPipe'
  <2>1. IsResponse(line) => answer[line.id] \in {"waiting", "undefined"}
    <3>1. ASSUME IsResponse(line), answer[line.id] \in Outcome PROVE FALSE
      <4>1. PICK k \in 1..read :
               HasId(sent[k]) /\ sent[k].id = line.id /\ Carried(sent[k]) = answer[line.id]
        BY <3>1, <1>0, <1>3 DEF AnswersMatch
      <4>2. IsResponse(sent[k])
        BY <4>1, <3>1 DEF Carried, IsResponse, Outcome
      <4> QED BY <4>1, <4>2, <3>1, <1>3, <1>4 DEF InOnePlace
    <3>2. ASSUME IsResponse(line) PROVE answer[line.id] # "rejected"
      BY <3>2, <1>0, <1>1, <1>3 DEF RunningKeepsPromises
    <3>3. ASSUME IsResponse(line)
          PROVE  answer[line.id] \in {"waiting", "rejected", "undefined"} \cup Outcome
      BY <3>3, <1>0, <1>3, SequenceProperties DEF ClientTypeOK, Requests
    <3> QED BY <3>1, <3>2, <3>3
  <2>2. ASSUME NEW k \in (read + 1)..Len(sent'), IsResponse(sent'[k])
        PROVE  \/ answer[sent'[k].id] \in {"waiting", "undefined"}
               \/ answer[sent'[k].id] = "rejected" /\ pump = "ended"
    <3>1. k \in (read + 1)..Len(sent) \/ k = Len(sent) + 1
      BY <1>4
    <3>2. k \in (read + 1)..Len(sent) => k \in 1..Len(sent)
      BY <1>4
    <3> QED BY <3>1, <3>2, <2>1, <2>2, <1>4 DEF AwaitedInPipe
  <2>3. pump = "ended" => NullRead /\ NullRead'
    <3>1. read >= 1 => read \in 1..Len(sent)
      BY <1>4
    <3> QED BY <3>1, <1>1, <1>4 DEF AwaitedInPipe, NullRead
  <2> QED BY <2>2, <2>3, <1>1 DEF AwaitedInPipe
<1>7. AnswersMatch'
  <2>1. \A k \in 1..read : \A j \in 1..(k - 1) : j \in 1..Len(sent)
    BY <1>4
  <2> QED BY <2>1, <1>1, <1>4 DEF AnswersMatch
<1>8. RunningKeepsPromises'
  BY <1>1 DEF RunningKeepsPromises
<1> QED BY <1>0, <1>5, <1>6, <1>7, <1>8

\* Rejecting requests preserves it when none of them has a response, or only
\* one that a pump a `null` has ended never reads.
LEMMA RejectAnswerInv ==
    ASSUME AnswerInv, NEW S, Settle(S, "rejected"), subprocess = "exited",
           \A k \in 1..Len(sent) : IsResponse(sent[k]) =>
               \/ sent[k].id \notin S
               \/ answer[sent[k].id] # "waiting"
               \/ k > read /\ pump = "ended",
           sent' = sent, read' = read, pump' = pump, subprocess' = subprocess, held' = held,
           Unwritten' \subseteq Unwritten,
           \A i, j \in 1..Len(writing') : writing'[i] = writing'[j] => i = j
    PROVE  InOnePlace' /\ AwaitedInPipe' /\ RunningKeepsPromises' /\ AnswersMatch'
<1> USE DEF AnswerInv
<1>0. ClientTypeOK /\ Len(sent) \in Nat /\ read \in 0..Len(sent)
  BY SequenceProperties DEF ClientInv, ClientTypeOK
<1>1. /\ Len(answer') = Len(answer)
      /\ \A id \in Requests : answer'[id] =
            IF id \in S /\ answer[id] = "waiting" THEN "rejected" ELSE answer[id]
  BY <1>0, SettleProperties DEF ClientTypeOK, Answer
<1>2. Requests' = Requests
  BY <1>1 DEF Requests
<1>3. InOnePlace'
  BY <1>2 DEF InOnePlace
<1>4. ASSUME NEW k \in 1..Len(sent), IsResponse(sent[k])
      PROVE  \/ answer'[sent[k].id] = answer[sent[k].id]
             \/ k > read /\ pump = "ended" /\ answer'[sent[k].id] = "rejected"
  BY <1>4, <1>1 DEF InOnePlace
<1>5. AwaitedInPipe'
  <2>1. \A k \in (read + 1)..Len(sent) : k \in 1..Len(sent)
    BY <1>0
  <2>2. NullRead' <=> NullRead
    BY DEF NullRead
  <2> QED BY <2>1, <2>2, <1>4 DEF AwaitedInPipe
<1>6. AnswersMatch'
  <2>1. ASSUME NEW id \in Requests', answer'[id] \in Outcome \cup {"undefined"}
        PROVE  id \in Requests /\ answer[id] = answer'[id]
    BY <2>1, <1>1, <1>2 DEF Outcome
  <2>2. ASSUME NEW k \in 1..read, IsResponse(sent[k])
        PROVE  answer'[sent[k].id] \in Outcome \cup {"undefined"}
    <3>1. k \in 1..Len(sent) /\ ~(k > read)
      BY <1>0
    <3> QED BY <3>1, <2>2, <1>4 DEF AnswersMatch
  <2> QED BY <2>1, <2>2 DEF AnswersMatch
<1>7. RunningKeepsPromises'
  BY DEF RunningKeepsPromises
<1> QED BY <1>3, <1>5, <1>6, <1>7

\* A broken pipe and the last step of the `done` task preserve it.
LEMMA TaskAnswerInv == AnswerInv /\ (WriteFails \/ RejectPending) => AnswerInv'
<1> SUFFICES ASSUME AnswerInv, WriteFails \/ RejectPending PROVE AnswerInv'
  OBVIOUS
<1> USE DEF AnswerInv
<1>0. ClientInv'
  BY WriteFailsClientInv, RejectPendingClientInv
<1>1. CASE WriteFails
  <2>1. /\ Settle(Unwritten, "rejected") /\ subprocess = "exited" /\ writing' = <<>>
        /\ sent' = sent /\ read' = read /\ pump' = pump /\ subprocess' = subprocess /\ held' = held
    BY <1>1 DEF WriteFails, childVars, pumpVars
  <2>2. Unwritten' = {} /\ \A i, j \in 1..Len(writing') : writing'[i] = writing'[j] => i = j
    BY <2>1 DEF Unwritten
  <2>3. \A k \in 1..Len(sent) : IsResponse(sent[k]) => sent[k].id \notin Unwritten
    BY DEF InOnePlace
  <2> QED BY <1>0, <2>1, <2>2, <2>3, RejectAnswerInv
<1>2. CASE RejectPending
  <2>1. /\ Settle(pending, "rejected") /\ writing' = writing
        /\ sent' = sent /\ read' = read /\ pump' = pump /\ subprocess' = subprocess /\ held' = held
    BY <1>2 DEF RejectPending, childVars
  <2>2. subprocess = "exited" /\ pump = "ended"
    BY <1>2 DEF RejectPending, ClientInv, StdinShut
  <2>3. Unwritten' = Unwritten
    BY <2>1 DEF Unwritten
  <2>4. \A i, j \in 1..Len(writing') : writing'[i] = writing'[j] => i = j
    BY <2>1 DEF InOnePlace
  <2>5. ASSUME NEW k \in 1..Len(sent), IsResponse(sent[k])
        PROVE  answer[sent[k].id] # "waiting" \/ k > read
    <3>1. k \in 1..read \/ k > read
      BY SequenceProperties DEF ClientInv, ClientTypeOK
    <3> QED BY <3>1, <2>5 DEF AnswersMatch, Outcome
  <2> QED BY <1>0, <2>1, <2>2, <2>3, <2>4, <2>5, RejectAnswerInv
<1> QED BY <1>1, <1>2

\* Handling a line preserves it: a response settles the request that waits for
\* it, unless the server's own of that number did, and no other.
LEMMA ReadLineAnswerInv == AnswerInv /\ ReadLine => AnswerInv'
<1> SUFFICES ASSUME AnswerInv, ReadLine PROVE AnswerInv'
  OBVIOUS
<1> USE DEF AnswerInv
<1> DEFINE line == sent[read + 1]
<1>0. ClientInv' /\ ClientTypeOK
  BY ReadLineClientInv DEF ClientInv
<1>1. /\ read + 1 \in 1..Len(sent) /\ read' = read + 1 /\ read \in Nat /\ Len(sent) \in Nat
      /\ line \in Line
      /\ HandleId(line) \/ HandleNote(line) \/ HandleJunk(line)
      /\ subprocess' = subprocess /\ sent' = sent /\ held' = held /\ writing' = writing
  BY <1>0, SequenceProperties DEF ReadLine, ClientTypeOK, childVars
<1>2. /\ Len(answer') = Len(answer)
      /\ \A id \in Requests : answer'[id] =
            IF HasId(line) /\ id = line.id /\ answer[id] = "waiting"
            THEN Carried(line) ELSE answer[id]
  <2>1. CASE HandleId(line)
    <3>1. Settle({line.id} \cap pending, Carried(line)) /\ HasId(line)
      BY <2>1 DEF HandleId
    <3>2. Carried(line) \in Answer \ {"waiting"}
      BY <1>1, CodexAssumption DEF Carried, Line, Response, Ask, Note, Odd, Outcome, Answer
    <3>3. /\ Len(answer') = Len(answer)
          /\ \A id \in Requests : answer'[id] =
                IF id \in {line.id} \cap pending /\ answer[id] = "waiting"
                THEN Carried(line) ELSE answer[id]
      <4> HIDE DEF line
      <4> QED BY <3>1, <3>2, <1>0, SettleProperties DEF ClientTypeOK, Answer
    <3>4. \A id \in Requests : answer[id] = "waiting" => id \in pending
      BY DEF ClientInv, PendingIsWaiting
    <3> HIDE DEF line
    <3> QED BY <3>1, <3>3, <3>4
  <2>2. CASE HandleNote(line) \/ HandleJunk(line)
    <3>1. ~HasId(line)
      BY <2>2, CodexAssumption DEF HandleNote, HandleJunk, HasId
    <3> QED BY <2>2, <3>1 DEF HandleNote, HandleJunk, callVars
  <2> QED BY <1>1, <2>1, <2>2
<1>3. Requests' = Requests /\ Unwritten' = Unwritten
  BY <1>1, <1>2 DEF Requests, Unwritten
<1>4. InOnePlace'
  BY <1>1, <1>3 DEF InOnePlace
<1>5. /\ Carried(line) \in Outcome \cup {"undefined"}
      /\ IsResponse(line) => HasId(line)
  BY <1>1, CodexAssumption
     DEF IsResponse, HasId, Carried, Line, Response, Ask, Note, Odd, Outcome
<1> HIDE DEF line
<1>6. ASSUME NEW k \in 1..Len(sent), k # read + 1, IsResponse(sent[k])
      PROVE  /\ sent[k].id \in Requests
             /\ \/ answer'[sent[k].id] = answer[sent[k].id]
                \/ answer[sent[k].id] = "waiting" /\ answer'[sent[k].id] = "undefined"
  <2>1. IsResponse(line) => line.id # sent[k].id
    BY <1>1, <1>6 DEF InOnePlace, line
  <2>2. ~IsResponse(line) => Carried(line) = "undefined"
    BY DEF Carried, IsResponse
  <2> QED BY <1>2, <1>6, <2>1, <2>2 DEF InOnePlace
<1>7. AwaitedInPipe'
  <2>1. \A k \in (read' + 1)..Len(sent) :
           k \in 1..Len(sent) /\ k # read + 1 /\ k \in (read + 1)..Len(sent)
    BY <1>1
  <2>2. pump = "reading" /\ (pump' = "ended" => NullRead')
    BY <1>1 DEF ReadLine, HandleId, HandleNote, HandleJunk, NullRead, line
  <2>3. ASSUME NEW k \in (read' + 1)..Len(sent), IsResponse(sent[k])
        PROVE  answer'[sent[k].id] \in {"waiting", "undefined"}
    BY <2>1, <2>2, <2>3, <1>6 DEF AwaitedInPipe
  <2> QED BY <2>2, <2>3, <1>1 DEF AwaitedInPipe
<1>8. AnswersMatch'
  <2>1. ASSUME NEW id \in Requests, answer'[id] \in Outcome \cup {"undefined"}
        PROVE  \E k \in 1..read' :
                  /\ HasId(sent[k])
                  /\ sent[k].id = id
                  /\ Carried(sent[k]) = answer'[id]
                  /\ \A j \in 1..(k - 1) : ~(IsResponse(sent[j]) /\ sent[j].id = id)
    <3>1. CASE answer[id] = "waiting"
      <4>1. HasId(line) /\ id = line.id /\ answer'[id] = Carried(line)
        BY <3>1, <2>1, <1>2 DEF Outcome
      <4>2. \A j \in 1..read : ~(IsResponse(sent[j]) /\ sent[j].id = id)
        BY <3>1 DEF AnswersMatch, Outcome
      <4>3. read + 1 \in 1..read' /\ (read + 1) - 1 = read
        BY <1>1
      <4> QED BY <4>1, <4>2, <4>3 DEF line
    <3>2. CASE answer[id] # "waiting"
      <4>1. answer'[id] = answer[id]
        BY <3>2, <1>2
      <4>2. \A k \in 1..read : k \in 1..read'
        BY <1>1
      <4> QED BY <4>1, <4>2, <2>1 DEF AnswersMatch
    <3> QED BY <3>1, <3>2
  <2>2. ASSUME NEW k \in 1..read', IsResponse(sent[k])
        PROVE  answer'[sent[k].id] \in Outcome \cup {"undefined"}
    <3>1. CASE k = read + 1
      <4>1. sent[k] = line /\ read + 1 \in (read + 1)..Len(sent) /\ pump = "reading"
        BY <3>1, <1>1 DEF line, ReadLine
      <4>2. line.id \in Requests /\ answer[line.id] \in {"waiting", "undefined"}
        BY <4>1, <3>1, <2>2, <1>1 DEF InOnePlace, AwaitedInPipe, line
      <4> QED BY <4>1, <4>2, <2>2, <1>2, <1>5
    <3>2. CASE k # read + 1
      <4>1. k \in 1..read /\ k \in 1..Len(sent)
        BY <3>2, <1>1
      <4> QED BY <4>1, <3>2, <2>2, <1>6 DEF AnswersMatch
    <3> QED BY <3>1, <3>2
  <2> QED BY <2>1, <2>2, <1>1, <1>3 DEF AnswersMatch
<1>9. RunningKeepsPromises'
  BY <1>1, <1>2, <1>3, <1>5 DEF RunningKeepsPromises, Outcome
<1> QED BY <1>0, <1>4, <1>7, <1>8, <1>9

\* Every step preserves the invariant.
LEMMA StepAnswerInv == AnswerInv /\ [ClientNext]_clientVars => AnswerInv'
<1> SUFFICES ASSUME AnswerInv, [ClientNext]_clientVars PROVE AnswerInv'
  OBVIOUS
<1>1. CASE ClientCalls
  BY <1>1, RequestAnswerInv, QuietAnswerInv DEF ClientCalls
<1>2. CASE Server
  BY <1>2, QuietAnswerInv, ChildAnswerInv DEF Server
<1>3. CASE Tasks
  BY <1>3, TaskAnswerInv, ReadLineAnswerInv, QuietAnswerInv DEF Tasks
<1>4. CASE UNCHANGED clientVars
  <2>1. ClientInv'
    BY <1>4, StepClientInv DEF AnswerInv
  <2>2. InOnePlace' /\ AwaitedInPipe'
    BY <1>4 DEF AnswerInv, InOnePlace, AwaitedInPipe, NullRead, Requests, Unwritten, clientVars, childVars,
                pumpVars, callVars, stopVars
  <2>3. RunningKeepsPromises' /\ AnswersMatch'
    BY <1>4 DEF AnswerInv, RunningKeepsPromises, AnswersMatch, Requests, Unwritten, clientVars,
                childVars, pumpVars, callVars
  <2> QED BY <2>1, <2>2, <2>3 DEF AnswerInv
<1> QED BY <1>1, <1>2, <1>3, <1>4 DEF ClientNext

\* The invariant of the answers, for a server that numbers its own requests as
\* it likes and writes any lines.
THEOREM AnswerInvariant == ClientSpec => []AnswerInv
BY InitAnswerInv, StepAnswerInv, PTL DEF ClientSpec

\* Every answer is one a line of the request's own id carried, and every
\* response read has found its request settled, whatever the interleaving of
\* writes, answers, notifications, requests of the server and the exit.
THEOREM AnswersReachTheirRequest == ClientSpec => []AnswersMatch
<1>1. AnswerInv => AnswersMatch
  BY DEF AnswerInv
<1> QED BY <1>1, AnswerInvariant, PTL

\* No request the server answered is rejected by the exit, unless a line `null`
\* ended the pump ahead of its answer.
THEOREM AnsweredIsKept == ClientSpec => []AnsweredNeverRejected
<1>1. AnswerInv => AnsweredNeverRejected
  <2> SUFFICES ASSUME AnswerInv, NEW k \in 1..Len(sent), IsResponse(sent[k]),
                      answer[sent[k].id] = "rejected"
               PROVE  \E j \in 1..(k - 1) : sent[j].kind = "null"
    BY DEF AnsweredNeverRejected
  <2>1. read \in 0..Len(sent) /\ Len(sent) \in Nat
    BY SequenceProperties DEF AnswerInv, ClientInv, ClientTypeOK
  <2>2. k \notin 1..read
    BY DEF AnswerInv, AnswersMatch, Outcome
  <2>3. k \in (read + 1)..Len(sent) /\ read # Len(sent)
    BY <2>1, <2>2
  <2>4. NullRead
    BY <2>3 DEF AnswerInv, AwaitedInPipe
  <2>5. read \in 1..(k - 1)
    BY <2>1, <2>3, <2>4 DEF NullRead
  <2> QED BY <2>4, <2>5 DEF NullRead
<1> QED BY <1>1, AnswerInvariant, PTL

=============================================================================
