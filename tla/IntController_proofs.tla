------------------------ MODULE IntController_proofs ------------------------
(***************************************************************************)
(* The two parts of INTPath's controller.  What FailureDetection reports,   *)
(* for any paths, keys and times that satisfy its assumptions; and what     *)
(* PathPlan plans, for any network that hangs together: in each the Euler   *)
(* trails take every link they should, no link is on two paths or twice on  *)
(* one, and there are as few paths as any plan can have.                   *)
(***************************************************************************)
EXTENDS FailureDetection, PathPlan, NatSums_proofs, FiniteSetTheorems, SequenceTheorems,
        TLAPS

(* A thread that sends along a path without a broken link. *)
Healthy(p) == sender[p] = "active" /\ p \notin broken

(* The probes of p on their way are at most Gap apart, up to the last sent. *)
Chained(p) ==
  /\ flight[p] # {} => nextSend[p] - Epoch \in flight[p]
  /\ \A t \in flight[p] : t <= nextSend[p] - Epoch
  /\ \A t \in flight[p] :
       \/ t = nextSend[p] - Epoch
       \/ \E u \in flight[p] : t < u /\ u <= t + Gap

(* The next probe to arrive was sent soon after the last that arrived.     *)
Recent(p) ==
  lastSent[p] # Never =>
    IF flight[p] = {}
    THEN nextSend[p] - Epoch <= lastSent[p] + lost[p] * Gap
    ELSE \E t \in flight[p] : t <= lastSent[p] + (lost[p] + 1) * Gap

KeysRenewed(p) ==
  lastSent[p] # Never =>
    \A k \in Renews[p] \ slow : expiry[k] >= lastSent[p] + Aging

Early(p) == sender[p] \in {"idle", "told"} => flight[p] = {} /\ lastSent[p] = Never
Punctual(p) ==
  sender[p] \in {"told", "active"} => nextSend[p] \in Nat /\ now <= nextSend[p] + Jitter
OnTheWay(p) ==
  /\ \A t \in flight[p] : t <= now /\ now <= t + Transit
  /\ lastSent[p] <= now
IInv ==
  /\ TypeOK
  /\ script = "update" => \A p \in Path : sender[p] = "idle"
  /\ script \in {"update", "traffic", "detector"} => broken = {} /\ slow = {}
  /\ \A p \in Path : Early(p) /\ Punctual(p) /\ OnTheWay(p)
  /\ \A p \in Path : Healthy(p) => Chained(p) /\ Recent(p) /\ KeysRenewed(p)

(* What is known of the constants. *)
LEMMA Numbers ==
  /\ Epoch \in Nat \ {0} /\ Aging \in Nat /\ Jitter \in Nat /\ Transit \in Nat
  /\ MaxLoss \in Nat /\ Gap \in Nat /\ Gap = Epoch + Jitter /\ SendTime \in Nat
  /\ WaitTables \in Nat /\ WaitTraffic \in Nat /\ WaitDetector \in Nat /\ WaitEnd \in Nat
  /\ (MaxLoss + 1) * Gap + Transit < Aging
  /\ Renews \in [Path -> SUBSET Key] /\ PortKey \subseteq Key
BY DetectionTimes, DetectionPaths, AgingOutlastsLosses DEF Gap

LEMMA Product ==
  ASSUME NEW c \in Nat, NEW g \in Nat
  PROVE  c * g \in Nat /\ (c + 1) * g = c * g + g
OBVIOUS

LEMMA ProductMonotone ==
  ASSUME NEW c \in Nat, NEW d \in Nat, NEW g \in Nat, c <= d
  PROVE  (c + 1) * g <= (d + 1) * g
OBVIOUS

THEOREM Initially == Init => IInv
BY Numbers DEF Init, IInv, TypeOK, Time, Early, Punctual, OnTheWay, Healthy, Never

(* A healthy path is never silent for long. *)
LEMMA Overdue ==
  ASSUME IInv, NEW p \in Path, Healthy(p), lastSent[p] # Never
  PROVE  now <= lastSent[p] + (lost[p] + 1) * Gap + Transit
<1> DEFINE late == lastSent[p] + (lost[p] + 1) * Gap
<1>1. lost[p] \in 0 .. MaxLoss /\ lastSent[p] \in Nat /\ now \in Nat
      /\ flight[p] \subseteq Nat
  BY Numbers DEF IInv, TypeOK, Time, Never
<1>2. (lost[p] + 1) * Gap \in Nat /\ (lost[p] + 1) * Gap = lost[p] * Gap + Gap
      /\ lost[p] * Gap \in Nat
  BY <1>1, Numbers, Product
<1>3. CASE flight[p] = {}
  <2>1. now <= nextSend[p] + Jitter /\ nextSend[p] \in Nat
    BY DEF IInv, Punctual, Healthy
  <2>2. nextSend[p] - Epoch <= lastSent[p] + lost[p] * Gap
    BY <1>3 DEF IInv, Recent
  <2> QED
    BY <2>1, <2>2, <1>1, <1>2, Numbers
<1>4. CASE flight[p] # {}
  <2>1. PICK t \in flight[p] : t <= late
    BY <1>4 DEF IInv, Recent
  <2>2. now <= t + Transit
    BY DEF IInv, OnTheWay
  <2> QED
    BY <2>1, <2>2, <1>1, <1>2, Numbers
<1> QED
  BY <1>3, <1>4

(* So a key that it renews is not over. *)
LEMMA Fresh ==
  ASSUME IInv, NEW p \in Path, Healthy(p), lastSent[p] # Never,
         NEW k \in Renews[p] \ slow
  PROVE  now < expiry[k]
<1>1. lost[p] \in 0 .. MaxLoss /\ lastSent[p] \in Nat /\ now \in Nat
      /\ expiry[k] \in Int
  BY Numbers DEF IInv, TypeOK, Time, Never
<1>2. (lost[p] + 1) * Gap \in Nat
  BY <1>1, Numbers, Product
<1>3. (lost[p] + 1) * Gap <= (MaxLoss + 1) * Gap /\ (MaxLoss + 1) * Gap \in Nat
  BY <1>1, Numbers, Product, ProductMonotone
<1>4. now <= lastSent[p] + (lost[p] + 1) * Gap + Transit
  BY Overdue
<1>5. expiry[k] >= lastSent[p] + Aging
  BY DEF IInv, KeysRenewed
<1> QED
  BY <1>1, <1>2, <1>3, <1>4, <1>5, Numbers

(* So a key that is over has lost all its healthy paths. *)
LEMMA OverExcused ==
  ASSUME IInv, NEW k \in Key, Over(k)
  PROVE  Excused(k)
<1> SUFFICES ASSUME k \notin slow, NEW p \in Renewers(k),
                    lastSent[p] # Never, p \notin broken, sender[p] # "stopped"
             PROVE  FALSE
  BY DEF Excused
<1>1. p \in Path /\ k \in Renews[p] \ slow
  BY DEF Renewers
<1>2. Healthy(p)
  BY <1>1 DEF Healthy, IInv, TypeOK, Early
<1>3. now < expiry[k]
  BY <1>1, <1>2, Fresh
<1> QED
  BY <1>3, Numbers DEF Over, IInv, TypeOK, Time, Never

LEMMA TickStep ==
  ASSUME IInv, Tick
  PROVE  IInv'
<1> USE DEF IInv, Tick, thread, probes, failure, watch
<1>1. TypeOK'
  BY DEF TypeOK
<1>2. ASSUME NEW p \in Path PROVE Early(p)' /\ Punctual(p)' /\ OnTheWay(p)'
  BY Numbers DEF Early, Punctual, OnTheWay, TypeOK, Time, Never
<1>3. ASSUME NEW p \in Path, Healthy(p)' PROVE Chained(p)' /\ Recent(p)' /\ KeysRenewed(p)'
  BY <1>3 DEF Healthy, Chained, Recent, KeysRenewed
<1> QED
  BY <1>1, <1>2, <1>3

(* Steps of the script and the detector, and keys that expire. *)
LEMMA QuietStep ==
  ASSUME IInv, UNCHANGED <<now, nextSend, startTime, flight, lost, lastSent>>, TypeOK',
         script' = "update" => script = "update",
         script' \in {"update", "traffic", "detector"} => broken' = {} /\ slow' = {},
         broken \subseteq broken', slow \subseteq slow',
         \A p \in Path : sender'[p] = sender[p],
         \A p \in Path, k \in Key :
           Healthy(p) /\ lastSent[p] # Never /\ k \in Renews[p] \ slow => expiry'[k] = expiry[k]
  PROVE  IInv'
<1>2. ASSUME NEW p \in Path PROVE Early(p)' /\ Punctual(p)' /\ OnTheWay(p)'
  BY DEF IInv, Early, Punctual, OnTheWay
<1>3. ASSUME NEW p \in Path, Healthy(p)' PROVE Chained(p)' /\ Recent(p)' /\ KeysRenewed(p)'
  <2>1. Healthy(p) /\ Chained(p) /\ Recent(p) /\ KeysRenewed(p)
    BY <1>3 DEF IInv, Healthy
  <2>2. Chained(p)' /\ Recent(p)'
    BY <2>1 DEF Chained, Recent
  <2>3. KeysRenewed(p)'
    BY <2>1, Numbers DEF KeysRenewed
  <2> QED
    BY <2>2, <2>3
<1> QED
  BY <1>2, <1>3 DEF IInv

LEMMA TraverseStep ==
  ASSUME IInv, TraversePaths
  PROVE  IInv'
<1> USE DEF TraversePaths, thread, probes, failure, watch
<1>1. TypeOK'
  BY Numbers DEF IInv, TypeOK, Time
<1>2. ASSUME NEW p \in Path PROVE Early(p)' /\ Punctual(p)' /\ OnTheWay(p)'
  BY Numbers DEF IInv, Early, Punctual, OnTheWay, TypeOK
<1>3. ASSUME NEW p \in Path PROVE ~ Healthy(p)'
  BY DEF Healthy
<1> QED
  BY <1>1, <1>2, <1>3 DEF IInv

LEMMA StartStep ==
  ASSUME IInv, NEW q \in Path, StartThread(q)
  PROVE  IInv'
<1> USE DEF StartThread, probes, failure, watch
<1>1. TypeOK'
  BY DEF IInv, TypeOK, Time
<1>2. ASSUME NEW p \in Path PROVE Early(p)' /\ Punctual(p)' /\ OnTheWay(p)'
  BY Numbers DEF IInv, Early, Punctual, OnTheWay, TypeOK
<1>3. ASSUME NEW p \in Path, Healthy(p)' PROVE Chained(p)' /\ Recent(p)' /\ KeysRenewed(p)'
  <2>1. CASE p = q
    BY <2>1 DEF IInv, TypeOK, Early, Chained, Recent, KeysRenewed
  <2>2. CASE p # q
    BY <1>3, <2>2 DEF IInv, TypeOK, Healthy, Chained, Recent, KeysRenewed
  <2> QED
    BY <2>1, <2>2
<1> QED
  BY <1>1, <1>2, <1>3 DEF IInv

LEMMA StopStep ==
  ASSUME IInv, NEW q \in Path, StopSending(q)
  PROVE  IInv'
<1> USE DEF StopSending, probes, failure, watch
<1>1. TypeOK'
  BY DEF IInv, TypeOK, Time
<1>2. ASSUME NEW p \in Path PROVE Early(p)' /\ Punctual(p)' /\ OnTheWay(p)'
  BY Numbers DEF IInv, Early, Punctual, OnTheWay, TypeOK
<1>3. ASSUME NEW p \in Path, Healthy(p)' PROVE Chained(p)' /\ Recent(p)' /\ KeysRenewed(p)'
  BY <1>3 DEF IInv, TypeOK, Healthy, Chained, Recent, KeysRenewed
<1> QED
  BY <1>1, <1>2, <1>3 DEF IInv

LEMMA SendStep ==
  ASSUME IInv, NEW q \in Path, Send(q)
  PROVE  IInv'
<1> USE DEF Send, failure, watch
<1>1. TypeOK'
  BY Numbers DEF IInv, TypeOK, Time
<1>2. ASSUME NEW p \in Path PROVE Early(p)' /\ Punctual(p)' /\ OnTheWay(p)'
  BY Numbers DEF IInv, Early, Punctual, OnTheWay, TypeOK
<1>3. ASSUME NEW p \in Path, Healthy(p)' PROVE Chained(p)' /\ Recent(p)' /\ KeysRenewed(p)'
  <2>0. Healthy(p) /\ Chained(p) /\ Recent(p) /\ KeysRenewed(p)
    BY <1>3 DEF IInv, Healthy
  <2>1. CASE p = q
    <3>1. now \in Nat /\ nextSend[q] \in Nat /\ flight[q] \subseteq Nat
          /\ nextSend[q] <= now /\ now <= nextSend[q] + Jitter
          /\ lost[q] \in Nat /\ lastSent[q] \in Int
      BY <2>0, <2>1 DEF IInv, TypeOK, Time, Never, Punctual, Healthy
    <3>2. lost[q] * Gap \in Nat /\ (lost[q] + 1) * Gap = lost[q] * Gap + Gap
      BY <3>1, Numbers, Product
    <3>3. flight'[q] = flight[q] \cup {now} /\ nextSend'[q] = now + Epoch
      BY DEF IInv, TypeOK
    <3>4. nextSend'[q] - Epoch = now
      BY <3>1, <3>3, Numbers
    <3>5. Chained(q)'
      <4>1. ASSUME NEW t \in flight[q] PROVE \E u \in flight'[q] : t < u /\ u <= t + Gap
        <5>1. CASE t = nextSend[q] - Epoch
          <6>1. t < now /\ now <= t + Gap
            BY <5>1, <3>1, Numbers
          <6> QED
            BY <6>1, <3>3
        <5>2. CASE \E u \in flight[q] : t < u /\ u <= t + Gap
          BY <5>2, <3>3
        <5> QED
          BY <2>0, <2>1, <5>1, <5>2 DEF Chained
      <4>2. \A t \in flight'[q] : t <= now
        BY <3>1, <3>3 DEF IInv, OnTheWay
      <4> QED
        BY <4>1, <4>2, <3>3, <3>4 DEF Chained
    <3>6. Recent(q)'
      <4>1. CASE flight[q] = {}
        <5>1. ASSUME lastSent[q] # Never
              PROVE  now <= lastSent[q] + (lost[q] + 1) * Gap
          <6>1. nextSend[q] - Epoch <= lastSent[q] + lost[q] * Gap
            BY <4>1, <5>1, <2>0, <2>1 DEF Recent
          <6> QED
            BY <6>1, <3>1, <3>2, Numbers
        <5> QED
          BY <5>1, <3>3 DEF Recent
      <4>2. CASE flight[q] # {}
        BY <4>2, <2>0, <2>1, <3>3 DEF Recent
      <4> QED
        BY <4>1, <4>2
    <3>7. KeysRenewed(q)'
      BY <2>0, <2>1 DEF KeysRenewed
    <3> QED
      BY <2>1, <3>5, <3>6, <3>7
  <2>2. CASE p # q
    BY <2>0, <2>2 DEF IInv, TypeOK, Chained, Recent, KeysRenewed
  <2> QED
    BY <2>1, <2>2
<1> QED
  BY <1>1, <1>2, <1>3 DEF IInv
LEMMA LoseStep ==
  ASSUME IInv, NEW q \in Path, Lose(q)
  PROVE  IInv'
<1>0. PICK s \in flight[q] :
        /\ \A u \in flight[q] : s <= u
        /\ q \in broken \/ lost[q] < MaxLoss
        /\ flight' = [flight EXCEPT ![q] = @ \ {s}]
        /\ lost' = [lost EXCEPT ![q] = IF q \in broken THEN @ ELSE @ + 1]
  BY DEF Lose, First
<1>a. UNCHANGED <<now, script, wake, thread, lastSent, expiry, watch, failure>>
  BY DEF Lose
<1> USE <1>a DEF thread, failure, watch
<1>1. TypeOK'
  BY <1>0, Numbers DEF IInv, TypeOK
<1>2. ASSUME NEW p \in Path PROVE Early(p)' /\ Punctual(p)' /\ OnTheWay(p)'
  BY <1>0 DEF IInv, Early, Punctual, OnTheWay, TypeOK
<1>3. ASSUME NEW p \in Path, Healthy(p)' PROVE Chained(p)' /\ Recent(p)' /\ KeysRenewed(p)'
  <2>0. Healthy(p) /\ Chained(p) /\ Recent(p) /\ KeysRenewed(p)
    BY <1>3 DEF IInv, Healthy
  <2>1. CASE p = q
    <3>1. nextSend[q] \in Nat /\ flight[q] \subseteq Nat /\ s \in Nat
          /\ lost[q] \in Nat /\ lastSent[q] \in Int
      BY <2>0, <2>1 DEF IInv, TypeOK, Time, Never, Punctual, Healthy
    <3>2. flight'[q] = flight[q] \ {s} /\ lost'[q] = lost[q] + 1
      BY <2>0, <2>1, <1>0 DEF IInv, TypeOK, Healthy
    <3>3. (lost[q] + 1) * Gap \in Nat /\ (lost'[q] + 1) * Gap = (lost[q] + 1) * Gap + Gap
      BY <3>1, <3>2, Numbers, Product
    <3>4. \/ s = nextSend[q] - Epoch
          \/ \E u \in flight'[q] : s < u /\ u <= s + Gap
      BY <2>0, <2>1, <3>1, <3>2 DEF Chained
    <3>5. s = nextSend[q] - Epoch => flight'[q] = {}
      <4> SUFFICES ASSUME s = nextSend[q] - Epoch, NEW t \in flight'[q] PROVE FALSE
        OBVIOUS
      <4>1. t \in flight[q] /\ t # s /\ s <= t
        BY <3>2, <1>0
      <4>2. t <= nextSend[q] - Epoch
        BY <4>1, <2>0, <2>1 DEF Chained
      <4> QED
        BY <4>1, <4>2, <3>1, Numbers
    <3>6. Chained(q)'
      BY <3>1, <3>2, <3>4, <3>5, <2>0, <2>1, <1>0 DEF Chained
    <3>7. ASSUME lastSent[q] # Never PROVE s <= lastSent[q] + (lost[q] + 1) * Gap
      <4>1. PICK t \in flight[q] : t <= lastSent[q] + (lost[q] + 1) * Gap
        BY <3>7, <2>0, <2>1 DEF Recent
      <4> QED
        BY <4>1, <1>0, <3>1, <3>3
    <3>8. Recent(q)'
      <4>1. CASE flight'[q] = {}
        <5>1. s = nextSend[q] - Epoch
          BY <3>4, <4>1
        <5> QED
          BY <5>1, <4>1, <3>7, <3>2, <3>3 DEF Recent
      <4>2. CASE flight'[q] # {}
        <5>1. PICK u \in flight'[q] : u <= s + Gap
          BY <3>4, <3>5, <4>2
        <5>2. lastSent[q] # Never => u <= lastSent[q] + (lost'[q] + 1) * Gap
          BY <5>1, <3>7, <3>1, <3>2, <3>3, Numbers
        <5> QED
          BY <5>1, <5>2, <4>2 DEF Recent
      <4> QED
        BY <4>1, <4>2
    <3>9. KeysRenewed(q)'
      BY <2>0, <2>1 DEF KeysRenewed
    <3> QED
      BY <2>1, <3>6, <3>8, <3>9
  <2>2. CASE p # q
    BY <2>0, <2>2, <1>0 DEF IInv, TypeOK, Chained, Recent, KeysRenewed
  <2> QED
    BY <2>1, <2>2
<1> QED
  BY <1>1, <1>2, <1>3 DEF IInv
LEMMA ReceiveStep ==
  ASSUME IInv, NEW q \in Path, Receive(q)
  PROVE  /\ IInv'
         /\ \A k \in inbox' \ inbox : Excused(k)
<1>c. PICK s \in flight[q] : \E ks \in Renewals(q, s) :
        /\ \A u \in flight[q] : s <= u
        /\ flight' = [flight EXCEPT ![q] = @ \ {s}]
        /\ lost' = [lost EXCEPT ![q] = 0]
        /\ lastSent' = [lastSent EXCEPT ![q] = s]
        /\ expiry' = [k \in Key |-> IF k \in ks THEN now + Aging ELSE expiry[k]]
        /\ inbox' = inbox \/ inbox' = inbox \cup {k \in ks : Over(k)}
  BY DEF Receive, First, Publish
<1>0. PICK ks \in Renewals(q, s) :
        /\ \A u \in flight[q] : s <= u
        /\ flight' = [flight EXCEPT ![q] = @ \ {s}]
        /\ lost' = [lost EXCEPT ![q] = 0]
        /\ lastSent' = [lastSent EXCEPT ![q] = s]
        /\ expiry' = [k \in Key |-> IF k \in ks THEN now + Aging ELSE expiry[k]]
        /\ inbox' = inbox \/ inbox' = inbox \cup {k \in ks : Over(k)}
  BY <1>c
<1>a. UNCHANGED <<now, script, wake, thread, detector, openedAt, reported, failure>>
  BY DEF Receive
<1> USE <1>a DEF thread, failure
<1>b. ks \subseteq Renews[q] /\ Renews[q] \ slow \subseteq ks /\ ks \subseteq Key
      /\ s \in Nat /\ s <= now /\ now \in Nat
  BY <1>0, Numbers DEF Renewals, IInv, TypeOK, OnTheWay
<1>1. TypeOK'
  BY <1>0, <1>b, Numbers DEF IInv, TypeOK, Time
<1>2. ASSUME NEW p \in Path PROVE Early(p)' /\ Punctual(p)' /\ OnTheWay(p)'
  BY <1>0, <1>b DEF IInv, Early, Punctual, OnTheWay, TypeOK
<1>3. ASSUME NEW p \in Path, Healthy(p)' PROVE Chained(p)' /\ Recent(p)' /\ KeysRenewed(p)'
  <2>0. Healthy(p) /\ Chained(p) /\ Recent(p) /\ KeysRenewed(p)
    BY <1>3 DEF IInv, Healthy
  <2>1. CASE p = q
    <3>1. nextSend[q] \in Nat /\ flight[q] \subseteq Nat
      BY <2>0, <2>1 DEF IInv, TypeOK, Time, Never, Punctual, Healthy
    <3>2. flight'[q] = flight[q] \ {s} /\ lost'[q] = 0 /\ lastSent'[q] = s
      BY <1>0 DEF IInv, TypeOK
    <3>3. 0 * Gap = 0 /\ (0 + 1) * Gap = Gap
      BY Numbers
    <3>4. \/ s = nextSend[q] - Epoch
          \/ \E u \in flight'[q] : s < u /\ u <= s + Gap
      BY <2>0, <2>1, <1>b, <3>2 DEF Chained
    <3>5. s = nextSend[q] - Epoch => flight'[q] = {}
      <4> SUFFICES ASSUME s = nextSend[q] - Epoch, NEW t \in flight'[q] PROVE FALSE
        OBVIOUS
      <4>1. t \in flight[q] /\ t # s /\ s <= t
        BY <3>2, <1>0
      <4>2. t <= s
        BY <4>1, <2>0, <2>1 DEF Chained
      <4>3. t \in Nat /\ s \in Nat
        BY <3>1, <4>1, <1>b
      <4> QED
        BY <4>1, <4>2, <4>3
    <3>6. Chained(q)'
      <4>1. nextSend'[q] = nextSend[q]
        OBVIOUS
      <4>2. flight'[q] # {} => nextSend[q] - Epoch \in flight'[q]
        BY <2>0, <2>1, <3>2, <3>5 DEF Chained
      <4>3. \A t \in flight'[q] : t <= nextSend[q] - Epoch
        BY <2>0, <2>1, <3>2 DEF Chained
      <4>4. ASSUME NEW t \in flight'[q], t # nextSend[q] - Epoch
            PROVE  \E u \in flight'[q] : t < u /\ u <= t + Gap
        <5>1. PICK u \in flight[q] : t < u /\ u <= t + Gap
          BY <2>0, <2>1, <3>2, <4>4 DEF Chained
        <5>2. s <= t
          BY <1>0, <3>2
        <5>3. u # s
          BY <1>b, <3>1, <3>2, <5>1, <5>2
        <5> QED
          BY <3>2, <5>1, <5>3
      <4> QED
        BY <4>1, <4>2, <4>3, <4>4 DEF Chained
    <3>7. Recent(q)'
      <4>1. CASE flight'[q] = {}
        <5>1. s = nextSend[q] - Epoch
          BY <3>4, <4>1
        <5> QED
          BY <5>1, <4>1, <3>2, <3>3, <1>b DEF Recent
      <4>2. CASE flight'[q] # {}
        <5>1. PICK u \in flight'[q] : u <= s + Gap
          BY <3>4, <3>5, <4>2
        <5> QED
          BY <5>1, <4>2, <3>2, <3>3 DEF Recent
      <4> QED
        BY <4>1, <4>2
    <3>8. KeysRenewed(q)'
      <4> SUFFICES ASSUME NEW k \in Renews[q] \ slow PROVE expiry'[k] >= s + Aging
        BY <3>2 DEF KeysRenewed
      <4>1. expiry'[k] = now + Aging
        BY <1>0, <1>b
      <4> QED
        BY <4>1, <1>b, Numbers
    <3> QED
      BY <2>1, <3>6, <3>7, <3>8
  <2>2. CASE p # q
    <3>1. Chained(p)' /\ Recent(p)'
      BY <2>0, <2>2, <1>0 DEF IInv, TypeOK, Chained, Recent
    <3>2. KeysRenewed(p)'
      <4> SUFFICES ASSUME lastSent[p] # Never, NEW k \in Renews[p] \ slow
                   PROVE  expiry'[k] >= lastSent[p] + Aging
        BY <2>2, <1>0 DEF KeysRenewed, IInv, TypeOK
      <4>1. k \in Key /\ expiry[k] >= lastSent[p] + Aging /\ lastSent[p] <= now
            /\ lastSent[p] \in Int
        BY <2>0, Numbers DEF KeysRenewed, IInv, OnTheWay, TypeOK, Time, Never
      <4> QED
        BY <4>1, <1>0, <1>b, Numbers
    <3> QED
      BY <3>1, <3>2
  <2> QED
    BY <2>1, <2>2
<1>4. ASSUME NEW k \in inbox' \ inbox PROVE Excused(k)
  <2>1. k \in Key /\ Over(k)
    BY <1>0, <1>b
  <2> QED
    BY <2>1, OverExcused
<1> QED
  BY <1>1, <1>2, <1>3, <1>4 DEF IInv
LEMMA ExpireStep ==
  ASSUME IInv, NEW k \in Key, Expire(k)
  PROVE  IInv' /\ \A j \in inbox' \ inbox : Excused(j)
<1>1. Excused(k) /\ (inbox' = inbox \/ inbox' = inbox \cup {k})
  BY OverExcused DEF Expire, Publish
<1> USE DEF Expire, thread, probes, failure
<1>2. TypeOK'
  BY <1>1 DEF IInv, TypeOK, Time
<1>3. ASSUME NEW p \in Path, NEW j \in Key, Healthy(p), lastSent[p] # Never,
             j \in Renews[p] \ slow
      PROVE  expiry'[j] = expiry[j]
  <2>1. now < expiry[j] /\ now \in Nat /\ expiry \in [Key -> Time]
    BY <1>3, Fresh DEF IInv, TypeOK
  <2>2. j # k
    BY <2>1, Numbers DEF Over, Time, Never
  <2> QED
    BY <2>1, <2>2
<1>4. IInv'
  BY <1>2, <1>3, QuietStep DEF IInv
<1> QED
  BY <1>1, <1>4

LEMMA ScriptStep ==
  ASSUME IInv, \/ OpenDetector \/ Subscribe \/ SimulateFailure \/ End
               \/ (\E k \in Key : PrintKey(k)) \/ UNCHANGED vars
  PROVE  IInv'
<1> USE DEF IInv, thread, probes, failure, watch
<1>1. CASE OpenDetector
  <2>1. TypeOK'
    BY <1>1, Numbers DEF OpenDetector, TypeOK, Time
  <2> QED
    BY <1>1, <2>1, QuietStep DEF OpenDetector
<1>2. CASE Subscribe
  <2>1. TypeOK'
    BY <1>2 DEF Subscribe, TypeOK
  <2> QED
    BY <1>2, <2>1, QuietStep DEF Subscribe
<1>3. CASE SimulateFailure
  <2>1. TypeOK'
    BY <1>3, Numbers DEF SimulateFailure, TypeOK, Time
  <2> QED
    BY <1>3, <2>1, QuietStep DEF SimulateFailure
<1>4. CASE End
  <2>1. TypeOK'
    BY <1>4 DEF End, TypeOK
  <2> QED
    BY <1>4, <2>1, QuietStep DEF End
<1>5. ASSUME NEW k \in Key, PrintKey(k) PROVE IInv'
  <2>1. TypeOK'
    BY <1>5 DEF PrintKey, TypeOK
  <2> QED
    BY <1>5, <2>1, QuietStep DEF PrintKey
<1>6. CASE UNCHANGED vars
  <2>1. TypeOK'
    BY <1>6 DEF vars, TypeOK
  <2> QED
    BY <1>6, <2>1, QuietStep DEF vars
<1> QED
  BY <1>1, <1>2, <1>3, <1>4, <1>5, <1>6

LEMMA Step ==
  ASSUME IInv, [Next]_vars
  PROVE  IInv' /\ \A k \in inbox' \ inbox : Excused(k)
<1>1. CASE TraversePaths
  BY <1>1, TraverseStep DEF TraversePaths, watch
<1>2. CASE Tick
  BY <1>2, TickStep DEF Tick, watch
<1>3. ASSUME NEW p \in Path, StartThread(p) \/ Send(p) \/ StopSending(p) \/ Lose(p)
      PROVE  IInv' /\ inbox' = inbox
  <2>1. IInv'
    BY <1>3, StartStep, SendStep, StopStep, LoseStep
  <2>2. inbox' = inbox
    BY <1>3 DEF StartThread, Send, StopSending, Lose, watch
  <2> QED
    BY <2>1, <2>2
<1>4. ASSUME NEW p \in Path, Receive(p)
      PROVE  IInv' /\ \A k \in inbox' \ inbox : Excused(k)
  BY <1>4, ReceiveStep
<1>5. ASSUME NEW k \in Key, Expire(k)
      PROVE  IInv' /\ \A j \in inbox' \ inbox : Excused(j)
  BY <1>5, ExpireStep
<1>6. CASE \/ OpenDetector \/ Subscribe \/ SimulateFailure \/ End
          \/ (\E k \in Key : PrintKey(k)) \/ UNCHANGED vars
  <2>1. IInv'
    BY <1>6, ScriptStep
  <2>2. inbox' \subseteq inbox
    BY <1>6 DEF OpenDetector, Subscribe, SimulateFailure, End, PrintKey, vars, watch
  <2> QED
    BY <2>1, <2>2
<1> QED
  BY <1>1, <1>2, <1>3, <1>4, <1>5, <1>6 DEF Next, Ended

(* The invariant: what keeps the keys of healthy paths alive. *)
THEOREM DetectionInvariant == Spec => []IInv
<1>1. IInv /\ [Next]_vars => IInv'
  BY Step
<1> QED
  BY Initially, <1>1, PTL DEF Spec

(* Type correctness: no thread loses count and no clock is undefined.      *)
THEOREM DetectionTypeCorrect == Spec => []TypeOK
<1>1. IInv => TypeOK
  BY DEF IInv
<1> QED
  BY DetectionInvariant, <1>1, PTL

(* The detector is never told of a key that some path in order renews:     *)
(* receive.py:49-60 and sendint.py:145-168 with any epoch, aging time,     *)
(* lag and number of losses the aging time is made for.                    *)
THEOREM NoPathInOrderReported == Spec => NoFalseAlarm
<1>1. IInv /\ [Next]_vars => [\A k \in inbox' \ inbox : Excused(k)]_vars
  BY Step
<1> QED
  BY DetectionInvariant, <1>1, PTL DEF Spec, NoFalseAlarm
-----------------------------------------------------------------------------
(* The other half: what the failure takes away is reported in time.        *)

(* When the hosts were told their paths. *)
Told == (IF script = "traffic" THEN wake ELSE openedAt) - WaitTraffic

Timed ==
  /\ script \in {"update", "traffic", "detector"} => failedAt = Never /\ now <= wake
  /\ script \in {"update", "traffic"} => detector = "off"
  /\ script = "traffic" => WaitTraffic <= wake /\ wake - WaitTraffic <= now
  /\ script \in {"detector", "failed", "end"} =>
       detector # "off" /\ openedAt \in Nat /\ WaitTraffic <= openedAt /\ openedAt <= now
  /\ script = "detector" => wake = openedAt + WaitDetector
  /\ script \in {"failed", "end"} => failedAt = openedAt + WaitDetector /\ failedAt <= now
  /\ detector = "starting" => now <= openedAt + StartLag

(* Until the failure every thread sends, and its first probe to arrive is  *)
(* on its way soon. *)
Started(p) ==
  script \in {"traffic", "detector"} =>
    /\ sender[p] \in {"told", "active"}
    /\ sender[p] = "told" => nextSend[p] = Told
    /\ sender[p] = "active" =>
         Told <= startTime[p] /\ startTime[p] <= Told + Jitter
    /\ sender[p] = "active" /\ lastSent[p] = Never =>
         IF flight[p] = {}
         THEN nextSend[p] <= Told + Jitter + lost[p] * Gap
         ELSE \E t \in flight[p] : t <= Told + 2 * Jitter + lost[p] * Gap

Lasting(k) ==
  expiry[k] # Never => expiry[k] <= now + Aging /\ now <= expiry[k] + ExpiryLag

(* A key of the failure is on its way to the detector or will be. *)
Doomed(k) ==
  failedAt # Never /\ Affected(k) =>
    \/ k \in reported
    \/ k \in inbox /\ now <= failedAt + Transit + Aging + ExpiryLag
    \/ /\ expiry[k] # Never
       /\ expiry[k] <= failedAt + Transit + Aging
       /\ detector = "starting" => openedAt + StartLag < expiry[k]

JInv ==
  /\ IInv /\ Timed
  /\ \A p \in Path : Started(p)
  /\ \A k \in Key : Lasting(k) /\ Doomed(k)

LEMMA MoreNumbers ==
  /\ StartLag \in Nat /\ ExpiryLag \in Nat
  /\ MaxLoss * Gap \in Nat /\ (MaxLoss + 1) * Gap = MaxLoss * Gap + Gap
  /\ 2 * Jitter + MaxLoss * Gap + Transit < WaitTraffic + WaitDetector
  /\ WaitTraffic + WaitDetector < SendTime
  /\ StartLag + (MaxLoss + 1) * Gap + Transit < WaitDetector + Aging
BY DetectionTimes, Schedule, Numbers, Product

LEMMA ReportInitially == Init => JInv
<1> SUFFICES ASSUME Init PROVE JInv
  OBVIOUS
<1>1. IInv
  BY Initially
<1>2. Timed
  BY Numbers DEF Init, Timed, Never
<1> QED
  BY <1>1, <1>2 DEF Init, JInv, Started, Lasting, Doomed

(* The script, as a set of moves of the variables Timed speaks of.         *)
LEMMA TimedStep ==
  ASSUME IInv, Timed, [Next]_vars
  PROVE  Timed'
<1>0. now \in Nat /\ wake \in Nat /\ Never = -1 /\ openedAt \in Time
      /\ script \in {"update", "traffic", "detector", "failed", "end"}
  BY DEF IInv, TypeOK, Never
<1> USE <1>0, Numbers, MoreNumbers DEF Timed, thread, probes, failure, watch
<1>1. CASE TraversePaths
  BY <1>1 DEF TraversePaths
<1>2. CASE OpenDetector
  BY <1>2 DEF OpenDetector, Time
<1>3. CASE Subscribe
  BY <1>3 DEF Subscribe
<1>4. CASE SimulateFailure
  BY <1>4 DEF SimulateFailure
<1>5. CASE End
  BY <1>5 DEF End
<1>6. CASE Tick
  BY <1>6 DEF Tick, Time
<1>7. ASSUME NEW p \in Path, \/ StartThread(p) \/ Send(p) \/ StopSending(p)
                              \/ Lose(p) \/ Receive(p)
      PROVE  Timed'
  <2>1. UNCHANGED <<now, script, wake, detector, openedAt, failedAt>>
    BY <1>7 DEF StartThread, Send, StopSending, Lose, Receive
  <2> QED
    BY <2>1
<1>8. ASSUME NEW k \in Key, Expire(k) \/ PrintKey(k)
      PROVE  Timed'
  <2>1. UNCHANGED <<now, script, wake, detector, openedAt, failedAt>>
    BY <1>8 DEF Expire, PrintKey
  <2> QED
    BY <2>1
<1>9. CASE UNCHANGED vars
  BY <1>9 DEF vars
<1> QED
  BY <1>1, <1>2, <1>3, <1>4, <1>5, <1>6, <1>7, <1>8, <1>9 DEF Next, Ended

(* At the time of the failure no thread has stopped and all have renewed.  *)
LEMMA AllKnown ==
  ASSUME JInv, script = "detector", now = wake, NEW p \in Path
  PROVE  Healthy(p) /\ lastSent[p] # Never
<1>0. now \in Nat /\ wake = openedAt + WaitDetector /\ openedAt \in Nat
      /\ Told = openedAt - WaitTraffic /\ broken = {}
      /\ lost[p] \in 0 .. MaxLoss /\ flight[p] \subseteq Nat
  BY DEF JInv, Timed, IInv, TypeOK, Told
<1>1. lost[p] * Gap \in Nat /\ (lost[p] + 1) * Gap = lost[p] * Gap + Gap
  BY <1>0, Numbers, Product
<1>a. (lost[p] + 1) * Gap <= (MaxLoss + 1) * Gap
  BY <1>0, Numbers, ProductMonotone
<1>2. lost[p] * Gap <= MaxLoss * Gap
  BY <1>1, <1>a, Numbers, MoreNumbers
<1>3. sender[p] # "told"
  <2> SUFFICES ASSUME sender[p] = "told" PROVE FALSE
    OBVIOUS
  <2>1. nextSend[p] = Told /\ now <= nextSend[p] + Jitter
    BY DEF JInv, Started, IInv, Punctual
  <2> QED
    BY <2>1, <1>0, Numbers, MoreNumbers
<1>4. Healthy(p)
  BY <1>0, <1>3 DEF JInv, Started, Healthy
<1>5. lastSent[p] # Never
  <2> SUFFICES ASSUME lastSent[p] = Never PROVE FALSE
    OBVIOUS
  <2>1. nextSend[p] \in Nat /\ now <= nextSend[p] + Jitter
    BY <1>4 DEF Healthy, JInv, IInv, Punctual
  <2>2. CASE flight[p] = {}
    <3>1. nextSend[p] <= Told + Jitter + lost[p] * Gap
      BY <1>4, <2>2 DEF JInv, Started, Healthy
    <3> QED
      BY <3>1, <2>1, <1>0, <1>1, <1>2, Numbers, MoreNumbers
  <2>3. CASE flight[p] # {}
    <3>1. PICK t \in flight[p] : t <= Told + 2 * Jitter + lost[p] * Gap
      BY <1>4, <2>3 DEF JInv, Started, Healthy
    <3>2. now <= t + Transit
      BY DEF JInv, IInv, OnTheWay
    <3> QED
      BY <3>1, <3>2, <1>0, <1>1, <1>2, Numbers, MoreNumbers
  <2> QED
    BY <2>2, <2>3
<1> QED
  BY <1>4, <1>5
LEMMA StartedStep ==
  ASSUME JInv, [Next]_vars, NEW p \in Path
  PROVE  Started(p)'
<1>0. /\ now \in Nat /\ wake \in Nat /\ openedAt \in Time /\ Never = -1
      /\ script \in {"update", "traffic", "detector", "failed", "end"}
      /\ lost[p] \in 0 .. MaxLoss /\ flight[p] \subseteq Nat /\ lastSent[p] \in Time
      /\ sender \in [Path -> {"idle", "told", "active", "stopped"}]
      /\ startTime \in [Path -> Time] /\ nextSend \in [Path -> Time]
      /\ flight \in [Path -> SUBSET Nat] /\ lost \in [Path -> 0 .. MaxLoss]
      /\ lastSent \in [Path -> Time]
  BY DEF JInv, IInv, TypeOK, Never
<1>00. lost[p] * Gap \in Nat /\ (lost[p] + 1) * Gap = lost[p] * Gap + Gap
  BY <1>0, Numbers, Product
<1>p. Punctual(p) /\ Early(p) /\ Started(p) /\ Timed
  BY DEF JInv, IInv
<1>q. script \in {"traffic", "detector"} => Told \in Nat /\ Told <= now
  BY <1>0, <1>p, Numbers DEF Timed, Told, Time
<1> USE <1>0 DEF thread, probes, failure, watch
<1>1. CASE TraversePaths
  BY <1>1, Numbers DEF TraversePaths, Started, Told
<1>2. CASE OpenDetector
  BY <1>2, <1>p, Numbers DEF OpenDetector, Started, Told
<1>3. CASE SimulateFailure \/ End
  BY <1>3 DEF SimulateFailure, End, Started
<1>4. CASE \/ Subscribe \/ Tick \/ UNCHANGED vars
          \/ \E k \in Key : Expire(k) \/ PrintKey(k)
  <2>1. UNCHANGED <<script, wake, thread, probes, openedAt>>
    BY <1>4 DEF Subscribe, Tick, Expire, PrintKey, vars
  <2> QED
    BY <2>1, <1>p DEF Started, Told
<1>5. ASSUME NEW q \in Path, p # q,
             StartThread(q) \/ Send(q) \/ StopSending(q) \/ Lose(q) \/ Receive(q)
      PROVE  Started(p)'
  <2>1. /\ UNCHANGED <<script, wake, openedAt>>
        /\ sender'[p] = sender[p] /\ startTime'[p] = startTime[p]
        /\ nextSend'[p] = nextSend[p] /\ flight'[p] = flight[p]
        /\ lost'[p] = lost[p] /\ lastSent'[p] = lastSent[p]
    BY <1>5 DEF StartThread, Send, StopSending, Lose, Receive
  <2> QED
    BY <2>1, <1>p DEF Started, Told
<1>6. CASE StartThread(p)
  <2>1. /\ UNCHANGED <<script, wake, openedAt, now>>
        /\ sender'[p] = "active" /\ startTime'[p] = now /\ nextSend'[p] = now
        /\ flight'[p] = {} /\ lost'[p] = lost[p] /\ sender[p] = "told"
    BY <1>6, <1>p DEF StartThread, Early
  <2>2. script \in {"traffic", "detector"} =>
          nextSend[p] = Told /\ now <= Told + Jitter /\ Told <= now
    BY <2>1, <1>p, <1>q DEF Started, Punctual
  <2> QED
    BY <2>1, <2>2, <1>00, <1>q, Numbers DEF Started, Told
<1>7. CASE Send(p)
  <2>1. /\ UNCHANGED <<script, wake, openedAt>>
        /\ sender'[p] = sender[p] /\ startTime'[p] = startTime[p]
        /\ flight'[p] = flight[p] \cup {now} /\ lost'[p] = lost[p]
        /\ lastSent'[p] = lastSent[p] /\ sender[p] = "active"
    BY <1>7 DEF Send
  <2>2. Told' = Told
    BY <2>1 DEF Told
  <2>3. ASSUME script \in {"traffic", "detector"}, lastSent[p] = Never
        PROVE  \E t \in flight'[p] : t <= Told + 2 * Jitter + lost[p] * Gap
    <3>1. CASE flight[p] = {}
      <4>1. nextSend[p] <= Told + Jitter + lost[p] * Gap
        BY <3>1, <2>1, <2>3, <1>p DEF Started
      <4>2. now <= nextSend[p] + Jitter /\ nextSend[p] \in Nat
        BY <2>1, <1>p DEF Punctual
      <4>3. now <= Told + 2 * Jitter + lost[p] * Gap
        BY <4>1, <4>2, <2>3, <1>00, <1>q, Numbers
      <4> QED
        BY <4>3, <2>1
    <3>2. CASE flight[p] # {}
      BY <3>2, <2>1, <2>3, <1>p DEF Started
    <3> QED
      BY <3>1, <3>2
  <2> QED
    BY <2>1, <2>2, <2>3, <1>p DEF Started
<1>8. CASE StopSending(p)
  <2> SUFFICES ASSUME script \in {"traffic", "detector"} PROVE FALSE
    BY <1>8 DEF StopSending, Started
  <2>1. Told <= startTime[p] /\ now - startTime[p] >= SendTime /\ startTime[p] \in Int
    BY <1>8, <1>p, Numbers DEF StopSending, Started, Time
  <2>2. now <= Told + WaitTraffic + WaitDetector
    BY <1>p, Numbers DEF Timed, Told, Time
  <2> QED
    BY <2>1, <2>2, <1>q, Numbers, MoreNumbers
<1>9. CASE Lose(p)
  <2> SUFFICES ASSUME script \in {"traffic", "detector"} PROVE Started(p)'
    BY <1>9 DEF Lose, Started
  <2>0. broken = {} /\ sender[p] \in {"told", "active"}
    BY <1>p DEF JInv, IInv, Started
  <2>1. PICK s \in flight[p] :
          /\ \A u \in flight[p] : s <= u
          /\ flight'[p] = flight[p] \ {s} /\ lost'[p] = lost[p] + 1
          /\ UNCHANGED <<script, wake, openedAt, sender, startTime, nextSend, lastSent>>
    BY <1>9, <2>0 DEF Lose, First
  <2>2. Told' = Told
    BY <2>1 DEF Told
  <2>3. Healthy(p) /\ Chained(p)
    BY <2>0, <2>1, <1>p DEF Healthy, Early, JInv, IInv
  <2>4. nextSend[p] \in Nat
    BY <2>3, <1>p DEF Punctual, Healthy
  <2>5. ASSUME lastSent[p] = Never
        PROVE  s <= Told + 2 * Jitter + lost[p] * Gap
    <3>1. PICK t \in flight[p] : t <= Told + 2 * Jitter + lost[p] * Gap
      BY <2>1, <2>3, <2>5, <1>p DEF Started, Healthy
    <3> QED
      BY <3>1, <2>1, <1>q, <1>00, Numbers
  <2>6. lost'[p] * Gap = lost[p] * Gap + Gap
    BY <2>1, <1>00
  <2>7. ASSUME lastSent[p] = Never
        PROVE  IF flight'[p] = {}
               THEN nextSend[p] <= Told + Jitter + lost'[p] * Gap
               ELSE \E t \in flight'[p] : t <= Told + 2 * Jitter + lost'[p] * Gap
    <3>1. CASE s = nextSend[p] - Epoch
      <4>1. flight'[p] = {}
        <5> SUFFICES ASSUME NEW t \in flight'[p] PROVE FALSE
          OBVIOUS
        <5>1. t \in flight[p] /\ t # s /\ s <= t /\ t <= nextSend[p] - Epoch
          BY <2>1, <2>3 DEF Chained
        <5> QED
          BY <5>1, <3>1, <2>4, Numbers
      <4> QED
        BY <4>1, <3>1, <2>4, <2>5, <2>6, <2>7, <1>q, <1>00, Numbers
    <3>2. CASE \E u \in flight[p] : s < u /\ u <= s + Gap
      <4>1. PICK u \in flight[p] : s < u /\ u <= s + Gap
        BY <3>2
      <4>2. u \in flight'[p] /\ u <= Told + 2 * Jitter + lost'[p] * Gap
        BY <4>1, <2>1, <2>5, <2>6, <2>7, <1>q, <1>00, Numbers
      <4> QED
        BY <4>2
    <3> QED
      BY <3>1, <3>2, <2>1, <2>3 DEF Chained
  <2> QED
    BY <2>1, <2>2, <2>7, <1>p DEF Started
<1>10. CASE Receive(p)
  <2>1. /\ UNCHANGED <<script, wake, openedAt, sender, startTime, nextSend>>
        /\ flight[p] # {} /\ lastSent'[p] # Never
    BY <1>10 DEF Receive
  <2>2. Told' = Told
    BY <2>1 DEF Told
  <2> QED
    BY <2>1, <2>2, <1>p DEF Started
<1> QED
  BY <1>1, <1>2, <1>3, <1>4, <1>5, <1>6, <1>7, <1>8, <1>9, <1>10 DEF Next, Ended
LEMMA LastingStep ==
  ASSUME JInv, [Next]_vars, NEW k \in Key
  PROVE  Lasting(k)'
<1>0. now \in Nat /\ expiry \in [Key -> Time] /\ Lasting(k) /\ Never = -1
  BY DEF JInv, IInv, TypeOK, Never
<1> USE <1>0, Numbers, MoreNumbers DEF Lasting, Time
<1>1. CASE Tick
  BY <1>1 DEF Tick, Over
<1>2. ASSUME NEW p \in Path, Receive(p) PROVE Lasting(k)'
  <2>1. now' = now /\ (expiry'[k] = now + Aging \/ expiry'[k] = expiry[k])
    BY <1>2 DEF Receive
  <2> QED
    BY <2>1
<1>3. ASSUME NEW j \in Key, Expire(j) PROVE Lasting(k)'
  <2>1. now' = now /\ (expiry'[k] = Never \/ expiry'[k] = expiry[k])
    BY <1>3 DEF Expire
  <2> QED
    BY <2>1
<1>4. CASE UNCHANGED <<now, expiry>>
  BY <1>4
<1>5. CASE \/ TraversePaths \/ OpenDetector \/ Subscribe \/ SimulateFailure \/ End
          \/ UNCHANGED vars
  <2>1. UNCHANGED <<now, expiry>>
    BY <1>5 DEF TraversePaths, OpenDetector, Subscribe, SimulateFailure, End, vars
  <2> QED
    BY <2>1, <1>4
<1>6. ASSUME NEW p \in Path, StartThread(p) \/ Send(p) \/ StopSending(p) \/ Lose(p)
      PROVE  UNCHANGED <<now, expiry>>
  BY <1>6 DEF StartThread, Send, StopSending, Lose
<1>7. ASSUME NEW j \in Key, PrintKey(j) PROVE UNCHANGED <<now, expiry>>
  BY <1>7 DEF PrintKey
<1> QED
  BY <1>1, <1>2, <1>3, <1>4, <1>5, <1>6, <1>7 DEF Next, Ended

(* The failure dooms its keys: they are there, and outlast the detector's  *)
(* start.                                                                  *)
LEMMA FailureStep ==
  ASSUME JInv, SimulateFailure, NEW k \in Key
  PROVE  Doomed(k)'
<1> SUFFICES ASSUME Affected(k)' PROVE Doomed(k)'
  BY DEF Doomed
<1>1. PICK p \in Path : k \in Renews[p]
  BY DEF Affected, Renewers
<1>2. script = "detector" /\ now = wake /\ now \in Nat /\ slow = {}
      /\ wake = openedAt + WaitDetector /\ openedAt \in Nat
  BY DEF SimulateFailure, JInv, IInv, TypeOK, Timed
<1>3. Healthy(p) /\ lastSent[p] # Never
  BY <1>2, AllKnown
<1>4. /\ lost[p] \in 0 .. MaxLoss /\ lastSent[p] \in Nat /\ flight[p] \subseteq Nat
      /\ expiry[k] \in Time /\ Never = -1
  BY <1>3 DEF JInv, IInv, TypeOK, Time, Never
<1>5. (lost[p] + 1) * Gap \in Nat /\ (lost[p] + 1) * Gap = lost[p] * Gap + Gap
      /\ lost[p] * Gap \in Nat
  BY <1>4, Numbers, Product
<1>6. (lost[p] + 1) * Gap <= (MaxLoss + 1) * Gap /\ (MaxLoss + 1) * Gap \in Nat
  BY <1>4, Numbers, Product, ProductMonotone
<1>7. expiry[k] >= lastSent[p] + Aging
  BY <1>1, <1>2, <1>3 DEF JInv, IInv, KeysRenewed
<1>8. now <= lastSent[p] + (lost[p] + 1) * Gap + Transit
  BY <1>3, Overdue DEF JInv
<1>9. expiry[k] # Never /\ openedAt + StartLag < expiry[k]
  <2>1. expiry[k] \in Int /\ lastSent[p] >= 0
    BY <1>4 DEF Time
  <2>2. expiry[k] >= now - (MaxLoss + 1) * Gap - Transit + Aging
    BY <2>1, <1>2, <1>4, <1>5, <1>6, <1>7, <1>8, Numbers
  <2>3. openedAt + StartLag < expiry[k]
    BY <2>1, <2>2, <1>2, <1>6, Numbers, MoreNumbers
  <2> QED
    BY <2>1, <2>3, <1>2, <1>4, MoreNumbers
<1>10. expiry[k] <= now + Aging
  BY <1>9 DEF JInv, Lasting
<1>11. expiry'[k] = expiry[k] /\ openedAt' = openedAt /\ failedAt' = now
  BY DEF SimulateFailure, watch
<1>12. expiry[k] <= now + Transit + Aging
  BY <1>2, <1>4, <1>10, Numbers DEF Time
<1> QED
  BY <1>9, <1>11, <1>12 DEF Doomed

LEMMA DoomedStep ==
  ASSUME JInv, [Next]_vars, NEW k \in Key
  PROVE  Doomed(k)'
<1>0. now \in Nat /\ expiry \in [Key -> Time] /\ Never = -1 /\ failedAt \in Time
      /\ openedAt \in Time /\ detector \in {"off", "starting", "subscribed"}
      /\ script \in {"update", "traffic", "detector", "failed", "end"}
      /\ flight \in [Path -> SUBSET Nat]
      /\ Lasting(k) /\ Doomed(k) /\ Timed
  BY DEF JInv, IInv, TypeOK, Never
<1>1. CASE SimulateFailure
  BY <1>1, FailureStep
<1>2. CASE ~ SimulateFailure
  <2>0. UNCHANGED failure
    BY <1>2 DEF Next, TraversePaths, OpenDetector, Subscribe, End, Tick, StartThread,
                Send, StopSending, Lose, Receive, Expire, PrintKey, Ended, vars
  <2>1. SUFFICES ASSUME failedAt # Never, Affected(k) PROVE Doomed(k)'
    BY <2>0 DEF Doomed, Affected, failure
  <2>2. script \in {"failed", "end"} /\ failedAt = openedAt + WaitDetector
        /\ failedAt <= now /\ openedAt \in Nat /\ detector # "off"
    BY <1>0, <2>1 DEF Timed
  <2>3. \/ k \in reported
        \/ k \in inbox /\ now <= failedAt + Transit + Aging + ExpiryLag
        \/ /\ expiry[k] # Never
           /\ expiry[k] <= failedAt + Transit + Aging
           /\ detector = "starting" => openedAt + StartLag < expiry[k]
    BY <1>0, <2>1 DEF Doomed
  <2>4. CASE Tick
    <3>1. inbox = {} /\ now' = now + 1
          /\ UNCHANGED <<expiry, detector, openedAt, inbox, reported>>
      BY <2>4 DEF Tick, watch
    <3> QED
      BY <2>0, <2>3, <3>1 DEF Doomed, failure
  <2>5. ASSUME NEW p \in Path, Receive(p) PROVE Doomed(k)'
    <3>1. PICK s \in flight[p] : \E ks \in Renewals(p, s) :
            /\ p \notin broken \/ s <= failedAt
            /\ expiry' = [j \in Key |-> IF j \in ks THEN now + Aging ELSE expiry[j]]
      BY <2>5 DEF Receive
    <3>2. /\ UNCHANGED <<now, detector, openedAt, reported>>
          /\ inbox \subseteq inbox'
      BY <2>5 DEF Receive, Publish
    <3>3. CASE expiry'[k] = expiry[k]
      BY <2>0, <2>3, <3>2, <3>3 DEF Doomed, failure
    <3>4. CASE expiry'[k] # expiry[k]
      <4>1. PICK ks \in Renewals(p, s) :
              /\ p \notin broken \/ s <= failedAt
              /\ expiry' = [j \in Key |-> IF j \in ks THEN now + Aging ELSE expiry[j]]
        BY <3>1
      <4>2. k \in ks /\ k \in Renews[p] /\ expiry'[k] = now + Aging
            /\ (s > failedAt => k \notin slow)
        BY <3>4, <4>1, <1>0 DEF Renewals
      <4>3. s \in Nat /\ now <= s + Transit
        BY <1>0 DEF JInv, IInv, OnTheWay
      <4>4. s <= failedAt
        BY <2>1, <4>1, <4>2, <4>3, <2>2, <1>0, Numbers DEF Affected, Renewers, Time
      <4>5. expiry'[k] # Never /\ expiry'[k] <= failedAt + Transit + Aging
            /\ openedAt + StartLag < expiry'[k]
        <5>1. (MaxLoss + 1) * Gap \in Nat
          BY Numbers, Product
        <5> QED
          BY <5>1, <4>2, <4>3, <4>4, <2>2, <1>0, Numbers, MoreNumbers DEF Time
      <4> QED
        BY <2>0, <3>2, <4>5 DEF Doomed, failure
    <3> QED
      BY <3>3, <3>4
  <2>6. CASE Expire(k)
    <3>1. now' = now /\ Over(k) /\ (detector = "subscribed" => k \in inbox')
          /\ UNCHANGED <<reported, detector>> /\ inbox \subseteq inbox'
      BY <2>6 DEF Expire, Publish
    <3>2. CASE k \in reported \/ (k \in inbox /\ now <= failedAt + Transit + Aging + ExpiryLag)
      BY <2>0, <3>1, <3>2 DEF Doomed, failure
    <3>3. CASE /\ expiry[k] # Never
               /\ expiry[k] <= failedAt + Transit + Aging
               /\ detector = "starting" => openedAt + StartLag < expiry[k]
      <4>1. expiry[k] <= now /\ now <= expiry[k] + ExpiryLag
        BY <3>1, <3>3, <1>0 DEF Over, Lasting
      <4>2. detector # "starting"
        BY <3>3, <4>1, <1>0, <2>2, Numbers, MoreNumbers DEF Timed, Time
      <4>3. now <= failedAt + Transit + Aging + ExpiryLag
        BY <3>3, <4>1, <1>0, <2>2, Numbers, MoreNumbers DEF Time
      <4> QED
        BY <2>0, <2>2, <1>0, <3>1, <4>2, <4>3 DEF Doomed, failure
    <3> QED
      BY <2>3, <3>2, <3>3
  <2>7. ASSUME NEW j \in Key, j # k, Expire(j) PROVE Doomed(k)'
    <3>1. UNCHANGED <<now, detector, openedAt, reported>> /\ inbox \subseteq inbox'
          /\ expiry'[k] = expiry[k]
      BY <2>7 DEF Expire, Publish
    <3> QED
      BY <2>0, <2>3, <3>1 DEF Doomed, failure
  <2>8. ASSUME NEW j \in Key, PrintKey(j) PROVE Doomed(k)'
    <3>1. UNCHANGED <<now, detector, openedAt, expiry>>
          /\ inbox' = inbox \ {j} /\ reported' = reported \cup {j}
      BY <2>8 DEF PrintKey
    <3> QED
      BY <2>0, <2>3, <3>1 DEF Doomed, failure
  <2>9. CASE Subscribe
    <3>1. UNCHANGED <<now, openedAt, expiry, inbox, reported>> /\ detector' = "subscribed"
      BY <2>9 DEF Subscribe
    <3> QED
      BY <2>0, <2>3, <3>1 DEF Doomed, failure
  <2>10. CASE UNCHANGED <<now, expiry, watch>>
    BY <2>0, <2>3, <2>10 DEF Doomed, failure, watch
  <2>11. ASSUME NEW p \in Path, StartThread(p) \/ Send(p) \/ StopSending(p) \/ Lose(p)
         PROVE  UNCHANGED <<now, expiry, watch>>
    BY <2>11 DEF StartThread, Send, StopSending, Lose
  <2>12. CASE End \/ UNCHANGED vars
    BY <2>10, <2>12 DEF End, vars
  <2>13. ~ TraversePaths /\ ~ OpenDetector
    BY <2>2 DEF TraversePaths, OpenDetector
  <2> QED
    BY <1>2, <2>4, <2>5, <2>6, <2>7, <2>8, <2>9, <2>10, <2>11, <2>12, <2>13
       DEF Next, Ended
<1> QED
  BY <1>1, <1>2

LEMMA ReportStep ==
  ASSUME JInv, [Next]_vars
  PROVE  JInv'
BY Step, TimedStep, StartedStep, LastingStep, DoomedStep DEF JInv

(* What a broken link or a slow port takes away is printed within Transit +*)
(* Aging + ExpiryLag of it, whatever the config, if app.py waits as long   *)
(* as Schedule asks for.                                                   *)
THEOREM FailureReportedInTime == Spec => []FailureReported
<1>1. JInv /\ [Next]_vars => JInv'
  BY ReportStep
<1>2. JInv => FailureReported
  <2> SUFFICES ASSUME JInv, NEW k \in Key, failedAt # Never, Affected(k),
                      now > failedAt + Transit + Aging + ExpiryLag
               PROVE  k \in reported
    BY DEF FailureReported
  <2>1. now \in Nat /\ failedAt \in Time /\ expiry[k] \in Time /\ Never = -1
        /\ Lasting(k) /\ Doomed(k)
    BY DEF JInv, IInv, TypeOK, Never
  <2>2. CASE expiry[k] # Never /\ expiry[k] <= failedAt + Transit + Aging
    BY <2>1, <2>2, Numbers, MoreNumbers DEF Lasting, Time
  <2>3. CASE now <= failedAt + Transit + Aging + ExpiryLag
    BY <2>1, <2>3, Numbers, MoreNumbers DEF Time
  <2> QED
    BY <2>1, <2>2, <2>3 DEF Doomed
<1> QED
  BY ReportInitially, <1>1, <1>2, PTL DEF Spec

-----------------------------------------------------------------------------
(* PathPlan.  Its inductive invariant is PlanInv, below. *)

(* The nodes with an odd number of links. *)
Odd(ls) == {u \in Nodes : Degree(ls, u) % 2 = 1}

(* No link leads out of S. *)
Closed(ls, S) == \A u, v \in Nodes : {u, v} \in ls /\ u \in S => v \in S

Calls == [i \in DOMAIN stack |-> stack[i].node]

(* What is noted, with the node e in which the descent under way will end. *)
Noted(e) == IF stack = << >> THEN trail ELSE Append(trail, e)

EulerCalled(g, s, f) ==
  /\ g \in Subgraphs(links) /\ s \in g /\ f \in g
  /\ \A u \in g : u \in Odd(links) <=> s # f /\ u \in {s, f}

EulerEnds(s, f, e) ==
  /\ IF stack = << >> THEN trail # << >> /\ trail[Len(trail)] = s
                      ELSE stack[1].node = s
  /\ IF trail = << >> THEN e = f ELSE trail[1] = f

EulerTyped(g, e) ==
  /\ left \subseteq LinksIn(links, g) /\ e \in g
  /\ stack \in Seq([node : g, next : 0 .. 2]) /\ trail \in Seq(g)

EulerTaken(g, e) ==
  /\ IsInjective(Hops(Noted(e))) /\ IsInjective(Hops(Calls))
  /\ LinksOf(Noted(e)) \cap LinksOf(Calls) = {}
  /\ LinksOf(Noted(e)) \cup LinksOf(Calls) = LinksIn(links, g) \ left

EulerParity(e) ==
  stack # << >> =>
    /\ Top.next # 0 => e = Top.node
    /\ \A u \in Nodes : u \in Odd(left) <=> ~ (u = e <=> u = Top.node)

EulerLoops(e) ==
  \A i \in DOMAIN stack :
    /\ i < Len(stack) => stack[i].next # 0
    /\ stack[i].next = 2 =>
         \/ Degree(left, stack[i].node) = 0
         \/ Top.next = 0 /\ stack[i].node = e

EulerSpans ==
  \A S \in SUBSET Nodes :
    Closed(left, S) /\ (\E l \in left : l \subseteq S)
      => \E i \in DOMAIN stack : stack[i].node \in S

EulerAt(g, s, f, e) ==
  /\ EulerCalled(g, s, f) /\ EulerEnds(s, f, e) /\ EulerTyped(g, e)
  /\ EulerTaken(g, e) /\ EulerParity(e) /\ EulerLoops(e) /\ EulerSpans

(* What a circuit is for, and a trail. *)
Purpose(g, s, f) ==
  /\ g \notin todo
  /\ IF s = f THEN /\ todo = {}
                   /\ IF joined = << >> THEN queue = << >> /\ Odd(net) = {}
                                        ELSE s \in ToSet(joined)
              ELSE joined = << >> /\ Odd(net) # {}

PlanTyped ==
  /\ net \in Networks /\ links \subseteq net
  /\ degree \in [Nodes -> 0 .. N - 1]
  /\ queue \in Seq(Seq(Nodes)) /\ joined \in Seq(Nodes)
  /\ \A p \in ToSet(Plans) : Len(p) > 1
  /\ todo \subseteq Subgraphs(links)
  /\ phase \in {"while", "for", "euler", "done"}

EulerStands ==
  phase = "euler" =>
    \E g \in SUBSET Nodes : \E s, f, e \in g : EulerAt(g, s, f, e) /\ Purpose(g, s, f)

PlanStands ==
  /\ phase # "euler" =>
       left = {} /\ stack = << >> /\ trail = << >> /\ joined = << >>
  /\ phase \in {"while", "done"} => todo = {}
  /\ phase = "for" => Odd(net) # {}
  /\ phase = "done" => links = {}
  /\ \A h \in todo : \A u \in h : degree[u] = Degree(links, u)

PlanCount ==
  IF Odd(net) = {}
  THEN \/ links = net /\ Len(Plans) = 0
       \/ links = {} /\ Len(Plans) = 1
  ELSE 2 * Len(Plans) + Cardinality(Odd(links)) = Cardinality(Odd(net))

PlanInv == PlanTyped /\ EachLinkOnOnePath /\ PlanStands /\ EulerStands /\ PlanCount
-----------------------------------------------------------------------------
(* Links and their ends. *)
LEMMA LinkForm ==
  /\ \A l \in AllLinks : \E u, v \in Nodes : u # v /\ l = {u, v}
  /\ \A u, v \in Nodes : {u, v} \in AllLinks => u # v
  /\ \A l \in AllLinks : l \subseteq Nodes
<1>1. ASSUME NEW l \in AllLinks PROVE \E u, v \in Nodes : u # v /\ l = {u, v}
  <2>1. PICK u, v \in Nodes : l = {u, v}
    BY <1>1 DEF AllLinks
  <2>2. u # v
    BY <1>1, <2>1 DEF AllLinks
  <2>. QED BY <2>1, <2>2
<1>2. ASSUME NEW u \in Nodes, NEW v \in Nodes, {u, v} \in AllLinks PROVE u # v
  <2>1. u = v => {u, v} = {u}
    OBVIOUS
  <2>. QED BY <1>2, <2>1 DEF AllLinks
<1>3. ASSUME NEW l \in AllLinks PROVE l \subseteq Nodes
  BY <1>1
<1>. QED BY <1>1, <1>2, <1>3

LEMMA NodesFinite == IsFiniteSet(Nodes) /\ Cardinality(Nodes) = N /\ N \in Nat
BY NAssumption, FS_Interval DEF Nodes

LEMMA NeighbourFacts ==
  ASSUME NEW ls, ls \subseteq AllLinks, NEW u \in Nodes
  PROVE  /\ Neighbours(ls, u) \subseteq Nodes \ {u} /\ IsFiniteSet(Neighbours(ls, u))
         /\ \A v \in Nodes : v \in Neighbours(ls, u) <=> {u, v} \in ls
         /\ Degree(ls, u) \in 0 .. N - 1
         /\ Degree(ls, u) = 0 <=> Neighbours(ls, u) = {}
<1>1. Neighbours(ls, u) \subseteq Nodes \ {u}
  BY DEF Neighbours
<1>2. \A v \in Nodes : v \in Neighbours(ls, u) <=> {u, v} \in ls
  BY LinkForm DEF Neighbours
<1>3. IsFiniteSet(Nodes \ {u}) /\ Cardinality(Nodes \ {u}) = N - 1
  BY NodesFinite, FS_RemoveElement
<1>4. /\ IsFiniteSet(Neighbours(ls, u)) /\ Cardinality(Neighbours(ls, u)) \in Nat
      /\ Cardinality(Neighbours(ls, u)) <= N - 1
  BY <1>1, <1>3, FS_Subset, FS_CardinalityType
<1>5. Cardinality(Neighbours(ls, u)) = 0 <=> Neighbours(ls, u) = {}
  BY <1>4, FS_EmptySet
<1>. QED BY <1>1, <1>2, <1>4, <1>5, NodesFinite DEF Degree

-----------------------------------------------------------------------------
(* Reachability.  Within is a recursive function: it exists, and goes on by *)
(* one link at a time.                                                     *)
Farther(ls, S) == S \cup UNION {Neighbours(ls, v) : v \in S}
IsWithin(ls, u, n, g) ==
  g = [k \in 0 .. n |-> IF k = 0 THEN {u} ELSE Farther(ls, g[k - 1])]

LEMMA WithinExists ==
  ASSUME NEW ls, NEW u
  PROVE  \A n \in Nat : \E g : IsWithin(ls, u, n, g)
<1>. DEFINE S == {n \in Nat : \E g : IsWithin(ls, u, n, g)}
<1>1. 0 \in S
  <2>. DEFINE z == [k \in 0 .. 0 |-> {u}]
  <2>1. z = [k \in 0 .. 0 |-> IF k = 0 THEN {u} ELSE Farther(ls, z[k - 1])]
    OBVIOUS
  <2>. QED BY <2>1 DEF IsWithin
<1>2. ASSUME NEW n \in Nat, n \in S PROVE n + 1 \in S
  <2>1. PICK g : IsWithin(ls, u, n, g)
    BY <1>2
  <2>. DEFINE e == [k \in 0 .. (n + 1) |->
                      IF k = n + 1 THEN Farther(ls, g[n]) ELSE g[k]]
  <2>2. \A k \in 0 .. n : g[k] = IF k = 0 THEN {u} ELSE Farther(ls, g[k - 1])
    BY <2>1 DEF IsWithin
  <2>3. \A k \in 0 .. (n + 1) : e[k] = IF k = 0 THEN {u} ELSE Farther(ls, e[k - 1])
    <3>1. ASSUME NEW k \in 0 .. n
          PROVE  e[k] = IF k = 0 THEN {u} ELSE Farther(ls, e[k - 1])
      <4>1. e[k] = g[k] /\ (k # 0 => e[k - 1] = g[k - 1])
        OBVIOUS
      <4>. HIDE DEF e
      <4>. QED BY <2>2, <4>1
    <3>2. e[n + 1] = Farther(ls, g[n]) /\ e[(n + 1) - 1] = g[n]
      OBVIOUS
    <3>3. \A k \in 0 .. (n + 1) : k \in 0 .. n \/ k = n + 1
      OBVIOUS
    <3>. HIDE DEF e
    <3>. QED BY <3>1, <3>2, <3>3
  <2>4. e = [k \in 0 .. (n + 1) |-> e[k]]
    OBVIOUS
  <2>5. IsWithin(ls, u, n + 1, e)
    <3>. HIDE DEF e
    <3>. QED BY <2>3, <2>4 DEF IsWithin
  <2>. QED BY <2>5
<1>3. Nat \subseteq S
  BY <1>1, <1>2, SetInduction
<1>. QED BY <1>3

LEMMA WithinSteps ==
  ASSUME NEW ls, NEW u
  PROVE  /\ Within(ls, u)[0] = {u}
         /\ \A k \in Nat : k + 1 <= N =>
              Within(ls, u)[k + 1] = Farther(ls, Within(ls, u)[k])
<1>. DEFINE W == Within(ls, u)
<1>1. W = CHOOSE g : IsWithin(ls, u, N, g)
  BY DEF Within, IsWithin, Farther
<1>2. IsWithin(ls, u, N, W)
  BY <1>1, NodesFinite, WithinExists
<1>. HIDE DEF W
<1>3. \A k \in 0 .. N : W[k] = IF k = 0 THEN {u} ELSE Farther(ls, W[k - 1])
  BY <1>2 DEF IsWithin
<1>4. ASSUME NEW k \in Nat, k + 1 <= N PROVE W[k + 1] = Farther(ls, W[k])
  <2>1. k + 1 \in 0 .. N /\ k + 1 # 0 /\ (k + 1) - 1 = k
    BY <1>4, NodesFinite
  <2>. QED BY <1>3, <2>1
<1>5. W[0] = {u}
  BY <1>3, NodesFinite
<1>. QED BY <1>4, <1>5 DEF W

(* Farther adds the nodes one link away. *)
LEMMA FartherFacts ==
  ASSUME NEW ls, ls \subseteq AllLinks, NEW S \in SUBSET Nodes
  PROVE  /\ S \subseteq Farther(ls, S) /\ Farther(ls, S) \subseteq Nodes
         /\ \A v \in S, w \in Nodes : {v, w} \in ls => w \in Farther(ls, S)
         /\ \A w \in Farther(ls, S) : w \in S \/ \E v \in S : {v, w} \in ls
BY NeighbourFacts, SMTT(40) DEF Farther

(* What is within k links grows with k, and stays in every closed set.     *)
LEMMA WithinGrows ==
  ASSUME NEW ls, ls \subseteq AllLinks, NEW u \in Nodes
  PROVE  \A k \in Nat : k <= N =>
           /\ Within(ls, u)[k] \subseteq Nodes /\ u \in Within(ls, u)[k]
           /\ \A S \in SUBSET Nodes :
                u \in S /\ Closed(ls, S) => Within(ls, u)[k] \subseteq S
           /\ k < N => Within(ls, u)[k] \subseteq Within(ls, u)[k + 1]
<1>. DEFINE W == Within(ls, u)
            Good(k) == /\ W[k] \subseteq Nodes /\ u \in W[k]
                       /\ \A S \in SUBSET Nodes :
                            u \in S /\ Closed(ls, S) => W[k] \subseteq S
            T == {k \in Nat : k <= N => Good(k)}
<1>1. /\ W[0] = {u}
      /\ \A k \in Nat : k + 1 <= N => W[k + 1] = Farther(ls, W[k])
  BY WithinSteps
<1>. HIDE DEF W
<1>2. 0 \in T
  BY <1>1
<1>3. ASSUME NEW k \in Nat, k \in T PROVE k + 1 \in T
  <2>. SUFFICES ASSUME k + 1 <= N PROVE Good(k + 1)
    OBVIOUS
  <2>1. Good(k) /\ W[k + 1] = Farther(ls, W[k])
    BY <1>1, <1>3, NodesFinite
  <2>2. W[k + 1] \subseteq Nodes /\ u \in W[k + 1]
    BY <2>1, FartherFacts
  <2>3. ASSUME NEW S \in SUBSET Nodes, u \in S, Closed(ls, S), NEW w \in W[k + 1]
        PROVE  w \in S
    <3>1. W[k] \subseteq S /\ W[k] \in SUBSET Nodes /\ w \in Nodes
      BY <2>1, <2>2, <2>3
    <3>2. w \in W[k] \/ \E v \in W[k] : {v, w} \in ls
      BY <2>1, <3>1, FartherFacts
    <3>. QED BY <2>3, <3>1, <3>2 DEF Closed
  <2>. QED BY <2>2, <2>3
<1>4. Nat \subseteq T
  <2>. HIDE DEF T
  <2>. QED BY <1>2, <1>3, SetInduction
<1>5. \A k \in Nat : k <= N => Good(k)
  BY <1>4
<1>6. ASSUME NEW k \in Nat, k < N PROVE W[k] \subseteq W[k + 1]
  <2>1. W[k + 1] = Farther(ls, W[k]) /\ W[k] \in SUBSET Nodes
    BY <1>1, <1>5, <1>6, NodesFinite
  <2>. QED BY <2>1, FartherFacts
<1>. QED BY <1>5, <1>6 DEF W

(* A component is the least closed set with its node.  N links are enough: *)
(* as long as a step adds a node, k links reach more than k nodes.         *)
LEMMA ComponentLeast ==
  ASSUME NEW ls, ls \subseteq AllLinks, NEW u \in Nodes
  PROVE  /\ Component(ls, u) \subseteq Nodes /\ u \in Component(ls, u)
         /\ Closed(ls, Component(ls, u))
         /\ \A S \in SUBSET Nodes :
              u \in S /\ Closed(ls, S) => Component(ls, u) \subseteq S
<1>. DEFINE W == Within(ls, u)
            T == {k \in Nat : k < N => \/ Closed(ls, W[k])
                                       \/ Cardinality(W[k + 1]) >= k + 2}
<1>0. \A k \in Nat : k + 1 <= N => W[k + 1] = Farther(ls, W[k])
  BY WithinSteps
<1>1. \A k \in Nat : k <= N =>
           /\ W[k] \subseteq Nodes /\ u \in W[k]
           /\ \A S \in SUBSET Nodes : u \in S /\ Closed(ls, S) => W[k] \subseteq S
           /\ k < N => W[k] \subseteq W[k + 1]
  BY WithinGrows
<1>. HIDE DEF W
<1>2. \A k \in Nat : k <= N =>
        IsFiniteSet(W[k]) /\ Cardinality(W[k]) \in Nat /\ Cardinality(W[k]) <= N
  BY <1>1, NodesFinite, FS_Subset, FS_CardinalityType
<1>3. ASSUME NEW k \in Nat, k < N, ~ Closed(ls, W[k])
      PROVE  Cardinality(W[k + 1]) >= Cardinality(W[k]) + 1
  <2>1. k + 1 \in Nat /\ k + 1 <= N /\ k <= N
    BY <1>3, NodesFinite
  <2>2. PICK v \in W[k], w \in Nodes : {v, w} \in ls /\ w \notin W[k]
    BY <1>3 DEF Closed
  <2>3. w \in W[k + 1] /\ W[k] \subseteq W[k + 1]
    BY <1>0, <1>1, <1>3, <2>1, <2>2, FartherFacts
  <2>4. IsFiniteSet(W[k]) /\ IsFiniteSet(W[k + 1])
    BY <1>2, <2>1
  <2>5. Cardinality(W[k]) # Cardinality(W[k + 1])
    BY <2>2, <2>3, <2>4, FS_Subset
  <2>6. Cardinality(W[k]) <= Cardinality(W[k + 1])
    BY <2>3, <2>4, FS_Subset
  <2>. QED BY <1>2, <2>1, <2>5, <2>6
<1>4. ASSUME NEW k \in Nat, k + 1 <= N, Closed(ls, W[k]) PROVE W[k + 1] = W[k]
  <2>1. W[k] \in SUBSET Nodes /\ u \in W[k]
    BY <1>1, <1>4, NodesFinite
  <2>2. W[k + 1] \subseteq W[k]
    BY <1>1, <1>4, <2>1
  <2>. QED BY <1>1, <1>4, <2>2, NodesFinite
<1>5. 0 \in T
  <2>1. CASE Closed(ls, W[0])
    BY <2>1
  <2>2. CASE ~ Closed(ls, W[0]) /\ 0 < N
    <3>1. Cardinality(W[0 + 1]) >= Cardinality(W[0]) + 1
      BY <1>3, <2>2
    <3>2. Cardinality(W[0]) >= 1
      BY <1>1, <1>2, <2>2, FS_EmptySet, NodesFinite
    <3>. QED BY <1>2, <2>2, <3>1, <3>2, NodesFinite
  <2>. QED BY <2>1, <2>2
<1>6. ASSUME NEW k \in Nat, k \in T PROVE k + 1 \in T
  <2>. SUFFICES ASSUME k + 1 < N, ~ Closed(ls, W[k + 1])
                PROVE  Cardinality(W[(k + 1) + 1]) >= (k + 1) + 2
    OBVIOUS
  <2>1. ~ Closed(ls, W[k])
    BY <1>4, NodesFinite
  <2>2. Cardinality(W[k + 1]) >= k + 2
    BY <1>6, <2>1, NodesFinite
  <2>3. Cardinality(W[(k + 1) + 1]) >= Cardinality(W[k + 1]) + 1
    BY <1>3
  <2>4. Cardinality(W[k + 1]) \in Nat /\ Cardinality(W[(k + 1) + 1]) \in Nat
    BY <1>2, NodesFinite
  <2>. QED BY <2>2, <2>3, <2>4
<1>7. Nat \subseteq T
  <2>. HIDE DEF T
  <2>. QED BY <1>5, <1>6, SetInduction
<1>8. Closed(ls, W[N])
  <2>1. N - 1 \in Nat /\ (N - 1) + 1 = N /\ N - 1 < N
    BY NAssumption
  <2>2. Closed(ls, W[N - 1]) \/ Cardinality(W[N]) >= N + 1
    BY <1>7, <2>1
  <2>3. Closed(ls, W[N - 1])
    BY <1>2, <2>2, NodesFinite
  <2>. QED BY <1>4, <2>1, <2>3
<1>9. Component(ls, u) = W[N]
  BY DEF Component, W
<1>. QED BY <1>1, <1>8, <1>9, NodesFinite

(* Nodes of one component have that component. *)
LEMMA ComponentSame ==
  ASSUME NEW ls, ls \subseteq AllLinks, NEW u \in Nodes, NEW v \in Component(ls, u)
  PROVE  Component(ls, v) = Component(ls, u)
<1>. DEFINE C == Component(ls, u)
            D == Component(ls, v)
<1>1. /\ C \subseteq Nodes /\ u \in C /\ Closed(ls, C)
      /\ \A S \in SUBSET Nodes : u \in S /\ Closed(ls, S) => C \subseteq S
  BY ComponentLeast
<1>2. /\ D \subseteq Nodes /\ v \in D /\ Closed(ls, D)
      /\ \A S \in SUBSET Nodes : v \in S /\ Closed(ls, S) => D \subseteq S
  BY <1>1, ComponentLeast
<1>. HIDE DEF C, D
<1>3. D \subseteq C
  BY <1>1, <1>2 DEF C
<1>4. Closed(ls, C \ D)
  <2>1. ASSUME NEW x \in Nodes, NEW y \in Nodes, {x, y} \in ls, x \in C \ D
        PROVE  y \in C \ D
    <3>1. y \in C
      BY <1>1, <2>1 DEF Closed
    <3>2. {y, x} \in ls
      <4>1. {y, x} = {x, y}
        OBVIOUS
      <4>. QED BY <2>1, <4>1
    <3>3. y \notin D
      BY <1>2, <2>1, <3>2 DEF Closed
    <3>. QED BY <3>1, <3>3
  <2>. QED BY <2>1 DEF Closed
<1>5. u \in D
  <2>. SUFFICES ASSUME u \notin D PROVE FALSE
    OBVIOUS
  <2>1. C \subseteq C \ D
    BY <1>1, <1>4
  <2>. QED BY <1>2, <2>1 DEF C
<1>6. C \subseteq D
  BY <1>1, <1>2, <1>5
<1>. QED BY <1>3, <1>6 DEF C, D

(* The subgraphs are the components that have links. *)
LEMMA SubgraphFacts ==
  ASSUME NEW ls, ls \subseteq AllLinks, NEW g \in Subgraphs(ls)
  PROVE  /\ g \subseteq Nodes /\ Closed(ls, g)
         /\ \A u \in g : Component(ls, u) = g
         /\ \E l \in ls : l \subseteq g
         /\ \A S \in SUBSET Nodes : Closed(ls, S) /\ S \cap g # {} => g \subseteq S
<1>1. PICK u \in Ends(ls) : g = Component(ls, u)
  BY DEF Subgraphs
<1>2. PICK l \in ls : u \in l
  BY <1>1 DEF Ends
<1>3. u \in Nodes /\ l \in AllLinks
  BY <1>2, LinkForm
<1>4. g \subseteq Nodes /\ u \in g /\ Closed(ls, g)
  BY <1>1, <1>3, ComponentLeast
<1>5. \A v \in g : Component(ls, v) = g
  BY <1>1, <1>3, ComponentSame
<1>6. l \subseteq g
  <2>1. PICK x, y \in Nodes : l = {x, y}
    BY <1>3, LinkForm
  <2>2. {y, x} = {x, y}
    OBVIOUS
  <2>3. u = x \/ u = y
    BY <1>2, <2>1
  <2>4. x \in g /\ y \in g
    BY <1>2, <1>4, <2>1, <2>2, <2>3 DEF Closed
  <2>. QED BY <2>1, <2>4
<1>7. ASSUME NEW S \in SUBSET Nodes, Closed(ls, S), S \cap g # {} PROVE g \subseteq S
  <2>1. PICK v \in g : v \in S
    BY <1>7
  <2>. QED BY <1>4, <1>5, <1>7, <2>1, ComponentLeast
<1>. QED BY <1>2, <1>4, <1>5, <1>6, <1>7

LEMMA SubgraphOf ==
  ASSUME NEW ls, ls \subseteq AllLinks, NEW l \in ls
  PROVE  \E g \in Subgraphs(ls) : l \subseteq g
<1>1. PICK u, v \in Nodes : l = {u, v}
  BY LinkForm
<1>2. Component(ls, u) \in Subgraphs(ls)
  BY <1>1 DEF Subgraphs, Ends
<1>3. u \in Component(ls, u) /\ v \in Component(ls, u)
  BY <1>1, ComponentLeast DEF Closed
<1>. QED BY <1>1, <1>2, <1>3

(* Two subgraphs have no node in common. *)
LEMMA SubgraphsApart ==
  ASSUME NEW ls, ls \subseteq AllLinks, NEW g \in Subgraphs(ls), NEW h \in Subgraphs(ls),
         g \cap h # {}
  PROVE  g = h
<1>1. PICK u \in g : u \in h
  OBVIOUS
<1>. QED BY <1>1, SubgraphFacts

(* A subgraph stays one when links of another are taken away.              *)
LEMMA SubgraphKept ==
  ASSUME NEW ls, ls \subseteq AllLinks, NEW g \in Subgraphs(ls), NEW h \in Subgraphs(ls),
         g # h, NEW ms, ms \subseteq LinksIn(ls, g)
  PROVE  h \in Subgraphs(ls \ ms)
<1>. DEFINE ks == ls \ ms
<1>1. /\ g \cap h = {} /\ h \subseteq Nodes /\ Closed(ls, h) /\ ks \subseteq AllLinks
      /\ \A S \in SUBSET Nodes : Closed(ls, S) /\ S \cap h # {} => h \subseteq S
  BY SubgraphsApart, SubgraphFacts
<1>2. \A u \in h, v \in Nodes : {u, v} \in ks <=> {u, v} \in ls
  BY <1>1 DEF LinksIn
<1>3. PICK l \in ls : l \subseteq h
  BY SubgraphFacts
<1>4. l \in ks
  <2>1. PICK u, v \in Nodes : l = {u, v}
    BY LinkForm
  <2>. QED BY <1>2, <1>3, <2>1
<1>5. PICK k \in Subgraphs(ks) : l \subseteq k
  BY <1>1, <1>4, SubgraphOf
<1>6. /\ k \subseteq Nodes /\ Closed(ks, k)
      /\ \A S \in SUBSET Nodes : Closed(ks, S) /\ S \cap k # {} => k \subseteq S
  <2>. HIDE DEF ks
  <2>. QED BY <1>1, <1>5, SubgraphFacts
<1>7. PICK u : u \in l
  BY <1>4, <1>1, LinkForm
<1>8. Closed(ks, h)
  BY <1>1 DEF Closed
<1>9. Closed(ls, h \cap k)
  BY <1>1, <1>2, <1>6 DEF Closed
<1>10. k \subseteq h /\ h \subseteq k
  BY <1>1, <1>3, <1>5, <1>6, <1>7, <1>8, <1>9
<1>11. h = k
  BY <1>10
<1>. QED BY <1>5, <1>11

(* And its nodes keep their degrees. *)
LEMMA DegreeKept ==
  ASSUME NEW ls, ls \subseteq AllLinks, NEW g \in Subgraphs(ls), NEW h \in Subgraphs(ls),
         g # h, NEW ms, ms \subseteq LinksIn(ls, g), NEW u \in h
  PROVE  Degree(ls \ ms, u) = Degree(ls, u)
<1>1. g \cap h = {} /\ u \in Nodes
  BY SubgraphsApart, SubgraphFacts
<1>2. \A v \in Nodes : {u, v} \in ls \ ms <=> {u, v} \in ls
  BY <1>1 DEF LinksIn
<1>3. Neighbours(ls \ ms, u) = Neighbours(ls, u)
  BY <1>2 DEF Neighbours
<1>. QED BY <1>3 DEF Degree

-----------------------------------------------------------------------------
(* Parity.  Taking a link away changes that of its two ends.               *)
LEMMA LinkTaken ==
  ASSUME NEW ls, ls \subseteq AllLinks, NEW u \in Nodes, NEW v \in Nodes, {u, v} \in ls
  PROVE  /\ u # v
         /\ \A x \in Nodes : Degree(ls \ {{u, v}}, x) =
              IF x \in {u, v} THEN Degree(ls, x) - 1 ELSE Degree(ls, x)
         /\ \A x \in Nodes : x \in Odd(ls \ {{u, v}}) <=>
              IF x \in {u, v} THEN x \notin Odd(ls) ELSE x \in Odd(ls)
<1>. DEFINE ks == ls \ {{u, v}}
<1>1. u # v
  BY LinkForm
<1>2. ASSUME NEW x \in Nodes, NEW y \in Nodes, {x, y} = {u, v}
      PROVE  Degree(ks, x) = Degree(ls, x) - 1
  <2>1. Neighbours(ks, x) = Neighbours(ls, x) \ {y}
    BY <1>1, <1>2 DEF Neighbours
  <2>2. y \in Neighbours(ls, x) /\ IsFiniteSet(Neighbours(ls, x))
    BY <1>2, NeighbourFacts
  <2>. QED BY <2>1, <2>2, FS_RemoveElement, ZenonT(40) DEF Degree
<1>3. ASSUME NEW x \in Nodes, x \notin {u, v} PROVE Degree(ks, x) = Degree(ls, x)
  <2>1. Neighbours(ks, x) = Neighbours(ls, x)
    BY <1>3 DEF Neighbours
  <2>. QED BY <2>1 DEF Degree
<1>4. {v, u} = {u, v}
  OBVIOUS
<1>5. \A x \in Nodes : Degree(ks, x) =
              IF x \in {u, v} THEN Degree(ls, x) - 1 ELSE Degree(ls, x)
  BY <1>2, <1>3, <1>4
<1>6. ASSUME NEW x \in Nodes PROVE Degree(ls, x) \in Nat
  <2>1. Degree(ls, x) \in 0 .. N - 1
    BY NeighbourFacts
  <2>. QED BY <2>1, NodesFinite
<1>. HIDE DEF ks
<1>7. ASSUME NEW x \in Nodes
      PROVE  x \in Odd(ks) <=> IF x \in {u, v} THEN x \notin Odd(ls) ELSE x \in Odd(ls)
  <2>1. \A d \in Nat : ((d - 1) % 2 = 1) <=> ~ (d % 2 = 1)
    OBVIOUS
  <2>. QED BY <1>5, <1>6, <2>1 DEF Odd
<1>. QED BY <1>1, <1>5, <1>7 DEF ks

(* Degrees in a subgraph, taken by itself. *)
LEMMA DegreesIn ==
  ASSUME NEW ls, ls \subseteq AllLinks, NEW g \in Subgraphs(ls)
  PROVE  \A u \in Nodes : Neighbours(LinksIn(ls, g), u) =
                            IF u \in g THEN Neighbours(ls, u) ELSE {}
<1>1. g \subseteq Nodes /\ Closed(ls, g)
  BY SubgraphFacts
<1>2. ASSUME NEW u \in Nodes, u \in g
      PROVE  Neighbours(LinksIn(ls, g), u) = Neighbours(ls, u)
  BY <1>1, <1>2 DEF Neighbours, LinksIn, Closed
<1>3. ASSUME NEW u \in Nodes, u \notin g
      PROVE  Neighbours(LinksIn(ls, g), u) = {}
  BY <1>3 DEF Neighbours, LinksIn
<1>. QED BY <1>2, <1>3

LEMMA OddFinite ==
  ASSUME NEW ls
  PROVE  IsFiniteSet(Odd(ls)) /\ Cardinality(Odd(ls)) \in Nat
BY NodesFinite, FS_Subset, FS_CardinalityType DEF Odd

-----------------------------------------------------------------------------
(* Paths and the links they go along. *)
LEMMA HopsFacts ==
  ASSUME NEW S, NEW p \in Seq(S)
  PROVE  /\ DOMAIN Hops(p) = 1 .. Len(p) - 1
         /\ \A i \in 1 .. Len(p) - 1 : Hops(p)[i] = {p[i], p[i + 1]}
         /\ \A l : l \in LinksOf(p) <=> \E i \in 1 .. Len(p) - 1 : l = {p[i], p[i + 1]}
         /\ IsInjective(Hops(p)) <=>
              \A i, j \in 1 .. Len(p) - 1 :
                {p[i], p[i + 1]} = {p[j], p[j + 1]} => i = j
BY DEF Hops, LinksOf, IsInjective

LEMMA HopsTo ==
  ASSUME NEW S, NEW p \in Seq(S), NEW n \in Int, Len(p) - 1 = n
  PROVE  /\ \A l : l \in LinksOf(p) <=> \E i \in 1 .. n : l = {p[i], p[i + 1]}
         /\ IsInjective(Hops(p)) <=>
              \A i, j \in 1 .. n : {p[i], p[i + 1]} = {p[j], p[j + 1]} => i = j
<1>1. \A l : l \in LinksOf(p) <=> \E i \in 1 .. n : l = {p[i], p[i + 1]}
  BY HopsFacts, SMTT(40)
<1>2. IsInjective(Hops(p)) <=>
        \A i, j \in 1 .. n : {p[i], p[i + 1]} = {p[j], p[j + 1]} => i = j
  BY HopsFacts
<1>. QED BY <1>1, <1>2

LEMMA HopsNone ==
  ASSUME NEW S, NEW p \in Seq(S), Len(p) <= 1
  PROVE  IsInjective(Hops(p)) /\ LinksOf(p) = {}
<1>1. 1 .. Len(p) - 1 = {}
  OBVIOUS
<1>. QED BY <1>1, HopsFacts

LEMMA HopsAppend ==
  ASSUME NEW S, NEW p \in Seq(S), NEW x \in S, p # << >>
  PROVE  LET l == {p[Len(p)], x}
         IN  /\ LinksOf(Append(p, x)) = LinksOf(p) \cup {l}
             /\ IsInjective(Hops(Append(p, x))) <=>
                  IsInjective(Hops(p)) /\ l \notin LinksOf(p)
<1>. DEFINE n == Len(p)
            r == Append(p, x)
            l == {p[n], x}
<1>1. /\ n \in Nat /\ n > 0 /\ r \in Seq(S) /\ Len(r) = n + 1
      /\ r[n + 1] = x /\ \A i \in 1 .. n : r[i] = p[i]
  OBVIOUS
<1>. HIDE DEF r
<1>2. /\ \A k : k \in LinksOf(r) <=> \E i \in 1 .. n : k = {r[i], r[i + 1]}
      /\ IsInjective(Hops(r)) <=>
           \A i, j \in 1 .. n : {r[i], r[i + 1]} = {r[j], r[j + 1]} => i = j
  <2>1. Len(r) - 1 = n
    BY <1>1
  <2>2. r \in Seq(S) /\ n \in Int
    BY <1>1
  <2>. HIDE DEF n
  <2>3. /\ \A k : k \in LinksOf(r) <=> \E i \in 1 .. Len(r) - 1 : k = {r[i], r[i + 1]}
        /\ IsInjective(Hops(r)) <=>
             \A i, j \in 1 .. Len(r) - 1 :
               {r[i], r[i + 1]} = {r[j], r[j + 1]} => i = j
    BY <2>2, HopsFacts
  <2>. QED BY <2>1, <2>3
<1>3. /\ \A k : k \in LinksOf(p) <=> \E i \in 1 .. n - 1 : k = {p[i], p[i + 1]}
      /\ IsInjective(Hops(p)) <=>
           \A i, j \in 1 .. n - 1 : {p[i], p[i + 1]} = {p[j], p[j + 1]} => i = j
  BY HopsFacts
<1>4. /\ \A i \in 1 .. n - 1 : {r[i], r[i + 1]} = {p[i], p[i + 1]}
      /\ {r[n], r[n + 1]} = l
  BY <1>1
<1>5. \A i \in 1 .. n : i \in 1 .. n - 1 \/ i = n
  BY <1>1
<1>6. \A i \in 1 .. n - 1 : i \in 1 .. n /\ i # n
  BY <1>1
<1>7. n \in 1 .. n
  BY <1>1
<1>. HIDE DEF n, l
<1>8. LinksOf(r) = LinksOf(p) \cup {l}
  <2>1. ASSUME NEW k \in LinksOf(r) PROVE k \in LinksOf(p) \cup {l}
    <3>1. PICK i \in 1 .. n : k = {r[i], r[i + 1]}
      BY <1>2
    <3>. QED BY <1>3, <1>4, <1>5, <3>1
  <2>2. ASSUME NEW k \in LinksOf(p) PROVE k \in LinksOf(r)
    <3>1. PICK i \in 1 .. n - 1 : k = {p[i], p[i + 1]}
      BY <1>3
    <3>. QED BY <1>2, <1>4, <1>6, <3>1
  <2>3. l \in LinksOf(r)
    BY <1>2, <1>4, <1>7
  <2>. QED BY <2>1, <2>2, <2>3
<1>9. ASSUME IsInjective(Hops(r)) PROVE IsInjective(Hops(p)) /\ l \notin LinksOf(p)
  <2>1. IsInjective(Hops(p))
    BY <1>2, <1>3, <1>4, <1>6, <1>9
  <2>2. ASSUME l \in LinksOf(p) PROVE FALSE
    <3>1. PICK i \in 1 .. n - 1 : l = {p[i], p[i + 1]}
      BY <1>3, <2>2
    <3>2. {r[i], r[i + 1]} = {r[n], r[n + 1]}
      BY <1>4, <3>1
    <3>. QED BY <1>2, <1>6, <1>7, <1>9, <3>2
  <2>. QED BY <2>1, <2>2
<1>10. ASSUME IsInjective(Hops(p)), l \notin LinksOf(p) PROVE IsInjective(Hops(r))
  <2>1. ASSUME NEW i \in 1 .. n, NEW j \in 1 .. n,
               {r[i], r[i + 1]} = {r[j], r[j + 1]}
        PROVE  i = j
    <3>1. CASE i \in 1 .. n - 1 /\ j \in 1 .. n - 1
      BY <1>3, <1>4, <1>10, <2>1, <3>1
    <3>2. CASE i \in 1 .. n - 1 /\ j = n
      BY <1>3, <1>4, <1>10, <2>1, <3>2
    <3>3. CASE i = n /\ j \in 1 .. n - 1
      BY <1>3, <1>4, <1>10, <2>1, <3>3
    <3>. QED BY <1>5, <3>1, <3>2, <3>3
  <2>. QED BY <1>2, <2>1
<1>. QED BY <1>8, <1>9, <1>10 DEF r, l, n

LEMMA FrontFacts ==
  ASSUME NEW S, NEW p \in Seq(S), p # << >>
  PROVE  /\ Front(p) \in Seq(S) /\ Len(Front(p)) = Len(p) - 1
         /\ \A i \in 1 .. Len(p) - 1 : Front(p)[i] = p[i]
         /\ p = Append(Front(p), p[Len(p)])
<1>. DEFINE f == Front(p)
            n == Len(p)
<1>1. n \in Nat /\ n > 0 /\ p[n] \in S
  OBVIOUS
<1>2. f \in Seq(S) /\ Len(f) = n - 1 /\ \A i \in 1 .. n - 1 : f[i] = p[i]
  <2>1. /\ 1 \in Int /\ n - 1 \in Int /\ Front(p) = SubSeq(p, 1, n - 1)
        /\ \A i \in 1 .. n - 1 : p[i] \in S
        /\ (n - 1) - 1 + 1 = n - 1 /\ \A i \in Nat : 1 + i - 1 = i
    BY DEF Front
  <2>2. /\ f \in Seq(S) /\ Len(f) = IF 1 <= n - 1 THEN (n - 1) - 1 + 1 ELSE 0
        /\ \A i \in 1 .. (n - 1) - 1 + 1 : f[i] = p[1 + i - 1]
    BY <2>1, SubSeqProperties
  <2>. HIDE DEF f, n
  <2>. QED BY <1>1, <2>1, <2>2
<1>. HIDE DEF f
<1>3. /\ Append(f, p[n]) \in Seq(S) /\ Len(Append(f, p[n])) = n
      /\ \A i \in 1 .. n : Append(f, p[n])[i] = p[i]
  BY <1>1, <1>2
<1>4. Append(f, p[n]) = p
  BY <1>3, SeqEqual
<1>. QED BY <1>2, <1>4 DEF f

LEMMA HopsFront ==
  ASSUME NEW S, NEW p \in Seq(S), Len(p) > 1
  PROVE  LET l == {p[Len(p) - 1], p[Len(p)]}
         IN  /\ LinksOf(p) = LinksOf(Front(p)) \cup {l}
             /\ IsInjective(Hops(p)) <=>
                  IsInjective(Hops(Front(p))) /\ l \notin LinksOf(Front(p))
<1>. DEFINE f == Front(p)
<1>1. f \in Seq(S) /\ Len(f) = Len(p) - 1 /\ f[Len(f)] = p[Len(p) - 1]
      /\ p = Append(f, p[Len(p)]) /\ p[Len(p)] \in S /\ f # << >>
  BY FrontFacts
<1>. HIDE DEF f
<1>2. /\ LinksOf(Append(f, p[Len(p)])) = LinksOf(f) \cup {{f[Len(f)], p[Len(p)]}}
      /\ IsInjective(Hops(Append(f, p[Len(p)]))) <=>
           IsInjective(Hops(f)) /\ {f[Len(f)], p[Len(p)]} \notin LinksOf(f)
  BY <1>1, HopsAppend
<1>. QED BY <1>1, <1>2 DEF f

LEMMA HopsReverse ==
  ASSUME NEW S, NEW p \in Seq(S)
  PROVE  /\ Reverse(p) \in Seq(S) /\ Len(Reverse(p)) = Len(p)
         /\ p # << >> => Reverse(p)[1] = p[Len(p)] /\ Reverse(p)[Len(p)] = p[1]
         /\ LinksOf(Reverse(p)) = LinksOf(p)
         /\ IsInjective(Hops(p)) => IsInjective(Hops(Reverse(p)))
<1>. DEFINE r == Reverse(p)
            n == Len(p)
<1>1. /\ n \in Nat /\ r \in Seq(S) /\ Len(r) = n
      /\ \A i \in 1 .. n : r[i] = p[n - i + 1]
  BY DEF Reverse
<1>. HIDE DEF r
<1>2. \A i \in 1 .. n - 1 : n - i \in 1 .. n - 1 /\ n - (n - i) = i
  BY <1>1
<1>3. ASSUME NEW i \in 1 .. n - 1 PROVE {r[i], r[i + 1]} = {p[n - i], p[(n - i) + 1]}
  <2>1. i \in 1 .. n /\ i + 1 \in 1 .. n /\ n - (i + 1) + 1 = n - i
    BY <1>1
  <2>. QED BY <1>1, <2>1
<1>4. /\ \A k : k \in LinksOf(r) <=> \E i \in 1 .. n - 1 : k = {r[i], r[i + 1]}
      /\ IsInjective(Hops(r)) <=>
           \A i, j \in 1 .. n - 1 : {r[i], r[i + 1]} = {r[j], r[j + 1]} => i = j
  <2>1. Len(r) - 1 = n - 1
    BY <1>1
  <2>2. r \in Seq(S) /\ n - 1 \in Int
    BY <1>1
  <2>. HIDE DEF n
  <2>. QED BY <2>1, <2>2, HopsTo
<1>5. /\ \A k : k \in LinksOf(p) <=> \E i \in 1 .. n - 1 : k = {p[i], p[i + 1]}
      /\ IsInjective(Hops(p)) <=>
           \A i, j \in 1 .. n - 1 : {p[i], p[i + 1]} = {p[j], p[j + 1]} => i = j
  BY HopsFacts
<1>6. p # << >> => r[1] = p[n] /\ r[n] = p[1]
  BY <1>1
<1>. HIDE DEF n
<1>7. ASSUME NEW k \in LinksOf(r) PROVE k \in LinksOf(p)
  <2>1. PICK i \in 1 .. n - 1 : k = {r[i], r[i + 1]}
    BY <1>4
  <2>. QED BY <1>2, <1>3, <1>5, <2>1
<1>8. ASSUME NEW k \in LinksOf(p) PROVE k \in LinksOf(r)
  <2>1. PICK i \in 1 .. n - 1 : k = {p[i], p[i + 1]}
    BY <1>5
  <2>2. {r[n - i], r[(n - i) + 1]} = {p[i], p[i + 1]}
    BY <1>2, <1>3
  <2>. QED BY <1>2, <1>4, <2>1, <2>2
<1>9. ASSUME IsInjective(Hops(p)) PROVE IsInjective(Hops(r))
  <2>1. ASSUME NEW i \in 1 .. n - 1, NEW j \in 1 .. n - 1,
               {r[i], r[i + 1]} = {r[j], r[j + 1]}
        PROVE  i = j
    <3>1. n - i = n - j
      BY <1>2, <1>3, <1>5, <1>9, <2>1, ZenonT(40)
    <3>. QED BY <1>1, <3>1
  <2>. QED BY <1>4, <2>1
<1>. QED BY <1>1, <1>6, <1>7, <1>8, <1>9 DEF r, n

(* A circuit that is put into a path at its start: a path along the links  *)
(* of both. *)
LEMMA HopsSplice ==
  ASSUME NEW S, NEW p \in Seq(S), NEW c \in Seq(S), Len(c) > 1, c[1] = c[Len(c)],
         c[1] \in ToSet(p)
  PROVE  LET r == AddPath(p, c)
         IN  /\ r \in Seq(S) /\ Len(r) = Len(p) + Len(c) - 1
             /\ LinksOf(r) = LinksOf(p) \cup LinksOf(c)
             /\ IsInjective(Hops(p)) /\ IsInjective(Hops(c))
                  /\ LinksOf(p) \cap LinksOf(c) = {} => IsInjective(Hops(r))
<1>. DEFINE r == AddPath(p, c)
            n == Len(p)
            m == Len(c) - 1
            first == {i \in DOMAIN p : p[i] = c[1]}
            at == CHOOSE i \in DOMAIN p :
                    p[i] = c[1] /\ \A j \in 1 .. i - 1 : p[j] # c[1]
<1>1. /\ n \in Nat /\ m \in Nat /\ m > 0 /\ DOMAIN p = 1 .. n
      /\ Len(p) = n /\ Len(c) = m + 1
  OBVIOUS
<1>. HIDE DEF n, m
<1>2. at \in 1 .. n /\ p[at] = c[1]
  <2>1. first \in SUBSET Nat /\ first # {}
    BY <1>1 DEF ToSet
  <2>2. PICK i \in first : \A j \in first : i <= j
    BY <2>1, LeastNat
  <2>3. i \in DOMAIN p /\ p[i] = c[1] /\ \A j \in 1 .. i - 1 : p[j] # c[1]
    BY <1>1, <2>2
  <2>. QED BY <1>1, <2>3
<1>. HIDE DEF at
<1>3. r = SubSeq(p, 1, at) \o Tail(c) \o SubSeq(p, at + 1, Len(p))
  BY DEF AddPath, at
<1>4. /\ r \in Seq(S) /\ Len(r) = n + m
      /\ \A i \in 1 .. at : r[i] = p[i]
      /\ \A i \in 1 .. m : r[at + i] = c[i + 1]
      /\ \A i \in 1 .. n - at : r[at + m + i] = p[at + i]
  <2>1. /\ SubSeq(p, 1, at) \in Seq(S) /\ Len(SubSeq(p, 1, at)) = at
        /\ \A i \in 1 .. at : SubSeq(p, 1, at)[i] = p[i]
    BY <1>1, <1>2
  <2>2. /\ Tail(c) \in Seq(S) /\ Len(Tail(c)) = m /\ \A i \in 1 .. m : Tail(c)[i] = c[i + 1]
    BY <1>1
  <2>3. /\ SubSeq(p, at + 1, Len(p)) \in Seq(S) /\ Len(SubSeq(p, at + 1, Len(p))) = n - at
        /\ \A i \in 1 .. n - at : SubSeq(p, at + 1, Len(p))[i] = p[at + i]
    <3>1. /\ at + 1 \in Int /\ n \in Int /\ n - (at + 1) + 1 = n - at
          /\ \A i \in at + 1 .. n : p[i] \in S
          /\ \A i \in 1 .. n - at : (at + 1) + i - 1 = at + i
      BY <1>1, <1>2
    <3>2. /\ SubSeq(p, at + 1, n) \in Seq(S)
          /\ Len(SubSeq(p, at + 1, n)) = IF at + 1 <= n THEN n - at ELSE 0
          /\ \A i \in 1 .. n - at : SubSeq(p, at + 1, n)[i] = p[(at + 1) + i - 1]
      BY <3>1, SubSeqProperties
    <3>. QED BY <1>1, <1>2, <3>1, <3>2
  <2>. DEFINE a == SubSeq(p, 1, at)
              b == Tail(c)
              d == SubSeq(p, at + 1, Len(p))
  <2>. HIDE DEF a, b, d
  <2>4. /\ a \in Seq(S) /\ b \in Seq(S) /\ d \in Seq(S) /\ r = a \o b \o d
        /\ Len(a) = at /\ Len(b) = m /\ Len(d) = n - at /\ at \in Nat
    BY <1>2, <1>3, <2>1, <2>2, <2>3 DEF a, b, d
  <2>5. /\ r \in Seq(S) /\ Len(r) = n + m
        /\ \A i \in 1 .. at : r[i] = a[i]
        /\ \A i \in 1 .. m : r[at + i] = b[i]
        /\ \A i \in 1 .. n - at : r[at + m + i] = d[i]
    <3>. HIDE DEF r
    <3>1. /\ a \o b \in Seq(S) /\ Len(a \o b) = at + m
          /\ \A i \in 1 .. at + m : (a \o b)[i] = IF i <= at THEN a[i] ELSE b[i - at]
      BY <2>4, ConcatProperties
    <3>. DEFINE ab == a \o b
    <3>. HIDE DEF ab
    <3>2. /\ r \in Seq(S) /\ Len(r) = (at + m) + (n - at)
          /\ \A i \in 1 .. (at + m) + (n - at) :
               r[i] = IF i <= at + m THEN (a \o b)[i] ELSE d[i - (at + m)]
      <4>1. ab \in Seq(S) /\ Len(ab) = at + m /\ r = ab \o d
        BY <2>4, <3>1 DEF ab
      <4>2. /\ r \in Seq(S) /\ Len(r) = Len(ab) + Len(d)
            /\ \A i \in 1 .. Len(ab) + Len(d) :
                 r[i] = IF i <= Len(ab) THEN ab[i] ELSE d[i - Len(ab)]
        BY <2>4, <4>1, ConcatProperties
      <4>. QED BY <2>4, <4>1, <4>2 DEF ab
    <3>3. ASSUME NEW i \in 1 .. at PROVE r[i] = a[i]
      <4>1. i <= at /\ i <= at + m /\ i \in 1 .. at + m /\ i \in 1 .. (at + m) + (n - at)
        BY <1>1, <1>2
      <4>. QED BY <3>1, <3>2, <4>1
    <3>4. ASSUME NEW i \in 1 .. m PROVE r[at + i] = b[i]
      <4>1. (at + i) - at = i /\ ~ (at + i <= at) /\ at + i <= at + m
            /\ at + i \in 1 .. at + m /\ at + i \in 1 .. (at + m) + (n - at)
        BY <1>1, <1>2
      <4>. QED BY <3>1, <3>2, <4>1
    <3>5. ASSUME NEW i \in 1 .. n - at PROVE r[at + m + i] = d[i]
      <4>1. (at + m + i) - (at + m) = i /\ ~ (at + m + i <= at + m)
            /\ at + m + i \in 1 .. (at + m) + (n - at)
        BY <1>1, <1>2
      <4>. QED BY <3>2, <4>1
    <3>6. (at + m) + (n - at) = n + m
      BY <1>1, <1>2
    <3>. QED BY <3>2, <3>3, <3>4, <3>5, <3>6
  <2>. QED BY <2>1, <2>2, <2>3, <2>5 DEF a, b, d
<1>. HIDE DEF r
<1>5. c[m + 1] = p[at] /\ c[1] = p[at] /\ r[at] = c[1] /\ r[at + m] = p[at]
  <2>1. c[m + 1] = p[at] /\ c[1] = p[at]
    BY <1>1, <1>2
  <2>2. at \in 1 .. at /\ m \in 1 .. m
    BY <1>1, <1>2
  <2>. QED BY <1>4, <2>1, <2>2
(* The links of r: those of p before at, those of c, those of p after at.  *)
<1>6. /\ \A i \in 1 .. at - 1 : {r[i], r[i + 1]} = {p[i], p[i + 1]}
      /\ \A i \in 1 .. m : {r[at + i - 1], r[at + i]} = {c[i], c[i + 1]}
      /\ \A i \in at .. n - 1 : {r[i + m], r[i + m + 1]} = {p[i], p[i + 1]}
  <2>1. ASSUME NEW i \in 1 .. at - 1 PROVE {r[i], r[i + 1]} = {p[i], p[i + 1]}
    <3>1. i \in 1 .. at /\ i + 1 \in 1 .. at
      BY <1>2
    <3>. QED BY <1>4, <3>1
  <2>2. ASSUME NEW i \in 1 .. m PROVE {r[at + i - 1], r[at + i]} = {c[i], c[i + 1]}
    <3>1. r[at + i] = c[i + 1]
      BY <1>4
    <3>2. CASE i = 1
      <4>1. at + i - 1 = at
        BY <1>2, <3>2
      <4>. QED BY <1>5, <3>1, <3>2, <4>1
    <3>3. CASE i # 1
      <4>1. i - 1 \in 1 .. m /\ at + i - 1 = at + (i - 1) /\ (i - 1) + 1 = i
        BY <1>1, <1>2, <3>3
      <4>2. r[at + (i - 1)] = c[(i - 1) + 1]
        BY <1>4, <4>1
      <4>. QED BY <3>1, <4>1, <4>2
    <3>. QED BY <3>2, <3>3
  <2>3. ASSUME NEW i \in at .. n - 1 PROVE {r[i + m], r[i + m + 1]} = {p[i], p[i + 1]}
    <3>1. r[i + m + 1] = p[i + 1]
      <4>1. (i + 1) - at \in 1 .. n - at /\ at + m + ((i + 1) - at) = i + m + 1
            /\ at + ((i + 1) - at) = i + 1
        BY <1>1, <1>2, SMTT(40)
      <4>2. r[at + m + ((i + 1) - at)] = p[at + ((i + 1) - at)]
        BY <1>4, <4>1
      <4>. QED BY <4>1, <4>2
    <3>2. CASE i = at
      BY <1>5, <3>1, <3>2
    <3>3. CASE i # at
      <4>1. i - at \in 1 .. n - at /\ at + m + (i - at) = i + m /\ at + (i - at) = i
        BY <1>1, <1>2, <3>3
      <4>2. r[at + m + (i - at)] = p[at + (i - at)]
        BY <1>4, <4>1
      <4>. QED BY <3>1, <4>1, <4>2
    <3>. QED BY <3>2, <3>3
  <2>. QED BY <2>1, <2>2, <2>3
<1>7. \A i \in 1 .. n + m - 1 :
        \/ i \in 1 .. at - 1
        \/ i - at + 1 \in 1 .. m /\ at + (i - at + 1) - 1 = i /\ at + (i - at + 1) = i + 1
        \/ i - m \in at .. n - 1 /\ (i - m) + m = i
  BY <1>1, <1>2
<1>8. /\ \A k : k \in LinksOf(r) <=> \E i \in 1 .. n + m - 1 : k = {r[i], r[i + 1]}
      /\ IsInjective(Hops(r)) <=>
           \A i, j \in 1 .. n + m - 1 : {r[i], r[i + 1]} = {r[j], r[j + 1]} => i = j
  <2>1. Len(r) - 1 = n + m - 1
    BY <1>1, <1>4
  <2>2. r \in Seq(S) /\ n + m - 1 \in Int
    BY <1>1, <1>4
  <2>3. /\ \A k : k \in LinksOf(r) <=> \E i \in 1 .. Len(r) - 1 : k = {r[i], r[i + 1]}
        /\ IsInjective(Hops(r)) <=>
             \A i, j \in 1 .. Len(r) - 1 :
               {r[i], r[i + 1]} = {r[j], r[j + 1]} => i = j
    BY <2>2, HopsFacts
  <2>. QED BY <2>1, <2>3
<1>9. /\ \A k : k \in LinksOf(p) <=> \E i \in 1 .. n - 1 : k = {p[i], p[i + 1]}
      /\ IsInjective(Hops(p)) <=>
           \A i, j \in 1 .. n - 1 : {p[i], p[i + 1]} = {p[j], p[j + 1]} => i = j
  <2>1. Len(p) - 1 = n - 1 /\ n - 1 \in Int
    BY <1>1
  <2>. QED BY <2>1, HopsTo, ZenonT(40)
<1>10. /\ \A k : k \in LinksOf(c) <=> \E i \in 1 .. m : k = {c[i], c[i + 1]}
       /\ IsInjective(Hops(c)) <=>
            \A i, j \in 1 .. m : {c[i], c[i + 1]} = {c[j], c[j + 1]} => i = j
  <2>1. Len(c) - 1 = m /\ m \in Int
    BY <1>1
  <2>3. /\ \A k : k \in LinksOf(c) <=> \E i \in 1 .. Len(c) - 1 : k = {c[i], c[i + 1]}
        /\ IsInjective(Hops(c)) <=>
             \A i, j \in 1 .. Len(c) - 1 :
               {c[i], c[i + 1]} = {c[j], c[j + 1]} => i = j
    BY HopsFacts
  <2>. QED BY <2>1, <2>3
<1>11. /\ \A i \in 1 .. at - 1 : i \in 1 .. n + m - 1 /\ i \in 1 .. n - 1
       /\ \A i \in 1 .. m : at + i - 1 \in 1 .. n + m - 1 /\ (at + i - 1) + 1 = at + i
       /\ \A i \in at .. n - 1 : i + m \in 1 .. n + m - 1 /\ i \in 1 .. n - 1
       /\ \A i \in 1 .. n - 1 : i \in 1 .. at - 1 \/ i \in at .. n - 1
  BY <1>1, <1>2
(* Where link i of r comes from. *)
<1>. DEFINE Of(i) == IF i \in 1 .. at - 1 THEN i ELSE i - m
<1>12. ASSUME NEW i \in 1 .. n + m - 1
       PROVE  LET k == {r[i], r[i + 1]}
              IN  \/ /\ i \notin at .. at + m - 1
                     /\ Of(i) \in 1 .. n - 1 /\ k = {p[Of(i)], p[Of(i) + 1]}
                  \/ /\ i \in at .. at + m - 1
                     /\ i - at + 1 \in 1 .. m /\ k = {c[i - at + 1], c[(i - at + 1) + 1]}
  <2>1. CASE i \in 1 .. at - 1
    <3>1. i \notin at .. at + m - 1 /\ i \in 1 .. n - 1
      BY <1>2, <1>11, <2>1
    <3>. QED BY <1>6, <2>1, <3>1
  <2>2. CASE i \notin 1 .. at - 1 /\ i - m \in at .. n - 1
    <3>1. i \notin at .. at + m - 1 /\ i - m \in 1 .. n - 1 /\ (i - m) + m = i
      BY <1>1, <1>2, <2>2
    <3>2. {r[(i - m) + m], r[(i - m) + m + 1]} = {p[i - m], p[(i - m) + 1]}
      BY <1>6, <2>2
    <3>. QED BY <2>2, <3>1, <3>2
  <2>3. CASE i - at + 1 \in 1 .. m
    <3>1. /\ i \in at .. at + m - 1 /\ at + (i - at + 1) - 1 = i
          /\ at + (i - at + 1) = i + 1
      BY <1>1, <1>2, <2>3
    <3>2. {r[at + (i - at + 1) - 1], r[at + (i - at + 1)]}
            = {c[i - at + 1], c[(i - at + 1) + 1]}
      BY <1>6, <2>3
    <3>. QED BY <2>3, <3>1, <3>2
  <2>. QED BY <1>7, <2>1, <2>2, <2>3
<1>13. ASSUME NEW k \in LinksOf(r) PROVE k \in LinksOf(p) \cup LinksOf(c)
  <2>. HIDE DEF Of
  <2>1. PICK i \in 1 .. n + m - 1 : k = {r[i], r[i + 1]}
    BY <1>8
  <2>2. CASE i \in at .. at + m - 1
    BY <1>10, <1>12, <2>1, <2>2
  <2>3. CASE i \notin at .. at + m - 1
    BY <1>9, <1>12, <2>1, <2>3
  <2>. QED BY <2>2, <2>3
<1>14. LinksOf(p) \subseteq LinksOf(r)
  <2>1. ASSUME NEW k \in LinksOf(p) PROVE k \in LinksOf(r)
    <3>1. PICK i \in 1 .. n - 1 : k = {p[i], p[i + 1]}
      BY <1>9
    <3>2. CASE i \in 1 .. at - 1
      BY <1>6, <1>8, <1>11, <3>1, <3>2
    <3>3. CASE i \in at .. n - 1
      BY <1>6, <1>8, <1>11, <3>1, <3>3
    <3>. QED BY <1>11, <3>2, <3>3
  <2>. QED BY <2>1
<1>15. LinksOf(c) \subseteq LinksOf(r)
  <2>1. ASSUME NEW k \in LinksOf(c) PROVE k \in LinksOf(r)
    <3>1. PICK i \in 1 .. m : k = {c[i], c[i + 1]}
      BY <1>10
    <3>2. {r[at + i - 1], r[(at + i - 1) + 1]} = k /\ at + i - 1 \in 1 .. n + m - 1
      BY <1>6, <1>11, <3>1
    <3>. QED BY <1>8, <3>2
  <2>. QED BY <2>1
<1>16. ASSUME IsInjective(Hops(p)), IsInjective(Hops(c)), LinksOf(p) \cap LinksOf(c) = {}
       PROVE  IsInjective(Hops(r))
  <2>1. ASSUME NEW i \in 1 .. n + m - 1, NEW j \in 1 .. n + m - 1,
               {r[i], r[i + 1]} = {r[j], r[j + 1]}
        PROVE  i = j
    <3>. DEFINE k == {r[i], r[i + 1]}
    <3>1. CASE i \in at .. at + m - 1 /\ j \in at .. at + m - 1
      <4>1. i - at + 1 = j - at + 1
        <5>. HIDE DEF Of
        <5>. QED BY <1>10, <1>12, <1>16, <2>1, <3>1
      <4>. QED BY <1>2, <2>1, <4>1
    <3>2. CASE i \notin at .. at + m - 1 /\ j \notin at .. at + m - 1
      <4>1. Of(i) = Of(j)
        <5>. HIDE DEF Of
        <5>. QED BY <1>9, <1>12, <1>16, <2>1, <3>2
      <4>. QED BY <1>1, <1>2, <2>1, <3>2, <4>1
    <3>3. CASE i \in at .. at + m - 1 /\ j \notin at .. at + m - 1
      <4>1. k \in LinksOf(c) /\ k \in LinksOf(p)
        <5>. HIDE DEF Of
        <5>. QED BY <1>9, <1>10, <1>12, <2>1, <3>3
      <4>. QED BY <1>16, <4>1
    <3>4. CASE i \notin at .. at + m - 1 /\ j \in at .. at + m - 1
      <4>1. k \in LinksOf(c) /\ k \in LinksOf(p)
        <5>. HIDE DEF Of
        <5>. QED BY <1>9, <1>10, <1>12, <2>1, <3>4
      <4>. QED BY <1>16, <4>1
    <3>. QED BY <3>1, <3>2, <3>3, <3>4
  <2>. QED BY <1>8, <2>1
<1>. QED BY <1>4, <1>13, <1>14, <1>15, <1>16 DEF r, n, m

-----------------------------------------------------------------------------
(* euler(): what holds at the call. *)
LEMMA SubgraphPair ==
  ASSUME NEW ls, ls \subseteq AllLinks, NEW g, NEW u, NEW v, {u, v} \in LinksIn(ls, g)
  PROVE  u \in g /\ v \in g /\ {u, v} \in ls
BY DEF LinksIn

LEMMA EulerStarts ==
  ASSUME links \subseteq AllLinks, links' = links, NEW g \in Subgraphs(links),
         NEW s \in g, NEW f \in g,
         \A u \in g : u \in Odd(links) <=> s # f /\ u \in {s, f},
         CallEuler(g, s)
  PROVE  EulerAt(g, s, f, f)'
<1>1. /\ left' = LinksIn(links, g) /\ stack' = <<[node |-> s, next |-> 0]>>
      /\ trail' = << >>
  BY DEF CallEuler
<1>2. /\ Len(stack') = 1 /\ DOMAIN stack' = {1} /\ stack' # << >>
      /\ stack'[1].node = s /\ stack'[1].next = 0
  BY <1>1
<1>3. Top' = stack'[1]
  BY <1>2 DEF Top
<1>4. g \subseteq Nodes /\ Closed(links, g) /\ LinksIn(links, g) \subseteq AllLinks
  BY SubgraphFacts DEF LinksIn
<1>5. EulerCalled(g, s, f)' /\ EulerEnds(s, f, f)' /\ EulerTyped(g, f)'
  <2>1. EulerCalled(g, s, f)'
    BY DEF EulerCalled, Odd, Degree, Neighbours
  <2>2. EulerEnds(s, f, f)'
    BY <1>1, <1>2 DEF EulerEnds
  <2>3. stack' \in Seq([node : g, next : 0 .. 2])
    <3>1. [node |-> s, next |-> 0] \in [node : g, next : 0 .. 2]
      OBVIOUS
    <3>. QED BY <1>1, <3>1
  <2>4. EulerTyped(g, f)'
    BY <1>1, <2>3 DEF EulerTyped
  <2>. QED BY <2>1, <2>2, <2>4
<1>6. EulerTaken(g, f)'
  <2>1. /\ Noted(f)' \in Seq(g) /\ Len(Noted(f)') = 1
        /\ Calls' \in Seq(g) /\ Len(Calls') = 1
    <3>1. Noted(f)' = <<f>>
      BY <1>1 DEF Noted
    <3>2. Calls' = <<s>>
      BY <1>1 DEF Calls
    <3>. QED BY <3>1, <3>2
  <2>2. /\ IsInjective(Hops(Noted(f)')) /\ LinksOf(Noted(f)') = {}
        /\ IsInjective(Hops(Calls')) /\ LinksOf(Calls') = {}
    <3>1. Len(Noted(f)') <= 1 /\ Len(Calls') <= 1
      BY <2>1
    <3>. QED BY <2>1, <3>1, HopsNone, Zenon
  <2>3. LinksIn(links', g) \ left' = {}
    BY <1>1
  <2>. QED BY <2>2, <2>3 DEF EulerTaken
<1>7. EulerParity(f)'
  <2>1. ASSUME NEW u \in Nodes PROVE u \in Odd(left') <=> ~ (u = f <=> u = s)
    <3>1. CASE u \in g
      <4>1. Degree(left', u) = Degree(links, u)
        BY <1>1, <3>1, DegreesIn DEF Degree
      <4>. QED BY <3>1, <4>1 DEF Odd
    <3>2. CASE u \notin g
      <4>1. Degree(left', u) = 0
        BY <1>1, <3>2, DegreesIn, FS_EmptySet DEF Degree
      <4>. QED BY <3>2, <4>1 DEF Odd
    <3>. QED BY <3>1, <3>2
  <2>. QED BY <1>2, <1>3, <2>1 DEF EulerParity
<1>8. EulerLoops(f)'
  BY <1>2 DEF EulerLoops
<1>9. EulerSpans'
  <2>. SUFFICES ASSUME NEW S \in SUBSET Nodes, Closed(left', S),
                       NEW l \in left', l \subseteq S
                PROVE  s \in S
    BY <1>2 DEF EulerSpans
  <2>. DEFINE T == S \cup (Nodes \ g)
  <2>1. Closed(links, T)
    <3>1. ASSUME NEW u \in Nodes, NEW v \in Nodes, {u, v} \in links, u \in T
          PROVE  v \in T
      <4>1. CASE v \in g
        <5>1. {v, u} = {u, v}
          OBVIOUS
        <5>2. u \in g
          BY <1>4, <3>1, <4>1, <5>1 DEF Closed
        <5>3. {u, v} \in left'
          BY <1>1, <3>1, <4>1, <5>2 DEF LinksIn
        <5>. QED BY <3>1, <5>2, <5>3 DEF Closed
      <4>. QED BY <3>1, <4>1
    <3>. HIDE DEF T
    <3>. QED BY <3>1 DEF Closed
  <2>2. T \cap g # {}
    <3>1. l \in links /\ l \subseteq g
      BY <1>1 DEF LinksIn
    <3>2. PICK u, v \in Nodes : l = {u, v}
      BY <3>1, LinkForm
    <3>. QED BY <3>1, <3>2
  <2>3. T \in SUBSET Nodes
    OBVIOUS
  <2>4. g \subseteq T
    <3>. HIDE DEF T
    <3>. QED BY <2>1, <2>2, <2>3, SubgraphFacts
  <2>. QED BY <2>4
<1>. QED BY <1>5, <1>6, <1>7, <1>8, <1>9 DEF EulerAt

(* The calls of hierholzer, and their nodes. *)
LEMMA FrameFacts ==
  ASSUME NEW g, NEW st \in Seq([node : g, next : 0 .. 2])
  PROVE  LET c == [i \in DOMAIN st |-> st[i].node]
         IN  /\ c \in Seq(g) /\ Len(c) = Len(st)
             /\ \A i \in 1 .. Len(st) : c[i] = st[i].node
             /\ \A i \in 1 .. Len(st) : st[i].node \in g /\ st[i].next \in 0 .. 2
<1>. DEFINE n == Len(st)
            c == [i \in DOMAIN st |-> st[i].node]
<1>1. n \in Nat /\ DOMAIN st = 1 .. n /\ \A i \in 1 .. n : st[i] \in [node : g, next : 0 .. 2]
  BY LenProperties, ElementOfSeq
<1>2. \A i \in 1 .. n : st[i].node \in g /\ st[i].next \in 0 .. 2
  BY <1>1
<1>. HIDE DEF n
<1>3. c = [i \in 1 .. n |-> st[i].node]
  BY <1>1
<1>4. c \in Seq(g) /\ Len(c) = n
  BY <1>1, <1>2, <1>3
<1>5. \A i \in 1 .. n : c[i] = st[i].node
  BY <1>3
<1>. QED BY <1>2, <1>4, <1>5 DEF n

LEMMA CallsFacts ==
  ASSUME NEW g, stack \in Seq([node : g, next : 0 .. 2])
  PROVE  /\ Calls \in Seq(g) /\ Len(Calls) = Len(stack)
         /\ \A i \in 1 .. Len(stack) : Calls[i] = stack[i].node
         /\ \A i \in 1 .. Len(stack) : stack[i].node \in g /\ stack[i].next \in 0 .. 2
BY FrameFacts DEF Calls

(* A link is followed: the call it leads to is on top.                     *)
LEMMA FollowStep ==
  ASSUME links \subseteq AllLinks, NEW g, NEW s, NEW f, NEW e,
         EulerAt(g, s, f, e), Follow
  PROVE  EulerAt(g, s, f, e)'
<1>. DEFINE n == Len(stack)
            t == Top.node
            k == Top.next
<1>0. /\ EulerCalled(g, s, f) /\ EulerEnds(s, f, e) /\ EulerTyped(g, e)
      /\ EulerTaken(g, e) /\ EulerParity(e) /\ EulerLoops(e) /\ EulerSpans
  BY DEF EulerAt
<1>1. g \in Subgraphs(links) /\ g \subseteq Nodes
  BY <1>0, SubgraphFacts DEF EulerCalled
<1>2. /\ left \subseteq LinksIn(links, g) /\ e \in g /\ trail \in Seq(g)
      /\ stack \in Seq([node : g, next : 0 .. 2]) /\ left \subseteq AllLinks
  BY <1>0 DEF EulerTyped, LinksIn
<1>3. /\ stack # << >> /\ k < Degree(left, t) /\ links' = links /\ trail' = trail
  BY DEF Follow
<1>4. PICK v \in Neighbours(left, t) :
        /\ left' = left \ {{t, v}}
        /\ stack' = Append([stack EXCEPT ![Len(stack)].next = @ + 1],
                           [node |-> v, next |-> 0])
  BY DEF Follow
<1>5. n \in Nat /\ n > 0 /\ n \in 1 .. n /\ Top = stack[n] /\ DOMAIN stack = 1 .. n
  BY <1>2, <1>3 DEF Top
<1>6. t \in g /\ k \in 0 .. 2 /\ stack[n].node = t /\ stack[n].next = k
  BY <1>2, <1>5, CallsFacts
<1>. HIDE DEF n, t, k
<1>7. {t, v} \in left /\ v \in g /\ t # v
  <2>1. v \in Nodes /\ {t, v} \in left
    BY <1>1, <1>2, <1>4, <1>6, NeighbourFacts
  <2>. QED BY <1>2, <2>1, SubgraphPair, LinkForm
<1>8. Degree(left, t) # 0 /\ Degree(left, t) \in Nat
  BY <1>1, <1>2, <1>3, <1>6, NeighbourFacts, NodesFinite
<1>9. k \in 0 .. 1
  <2>. SUFFICES ASSUME k = 2 PROVE FALSE
    BY <1>6
  <2>1. Degree(left, t) = 0 \/ Top.next = 0
    BY <1>0, <1>5, <1>6 DEF EulerLoops
  <2>. QED BY <1>5, <1>6, <1>8, <2>1
<1>10. k # 0 => e = t
  BY <1>0, <1>3 DEF EulerParity, k, t
<1>11. /\ stack' \in Seq([node : g, next : 0 .. 2]) /\ Len(stack') = n + 1
       /\ \A i \in 1 .. n : /\ stack'[i].node = stack[i].node
                            /\ i # n => stack'[i].next = stack[i].next
       /\ stack'[n].next = k + 1
       /\ stack'[n + 1].node = v /\ stack'[n + 1].next = 0
  <2>. DEFINE st == [stack EXCEPT ![n].next = @ + 1]
  <2>1. stack[n] \in [node : g, next : 0 .. 2]
    BY <1>2, <1>5, ElementOfSeq DEF n
  <2>2. stack[n] = [node |-> t, next |-> k]
    BY <1>6, <2>1
  <2>3. st = [stack EXCEPT ![n] = [node |-> t, next |-> k + 1]]
    <3>1. [stack[n] EXCEPT !.next = @ + 1] = [node |-> t, next |-> k + 1]
      BY <2>2
    <3>2. st = [stack EXCEPT ![n] = [stack[n] EXCEPT !.next = @ + 1]]
      OBVIOUS
    <3>. HIDE DEF st
    <3>. QED BY <3>1, <3>2
  <2>4. [node |-> t, next |-> k + 1] \in [node : g, next : 0 .. 2]
    BY <1>6, <1>9
  <2>5. /\ st \in Seq([node : g, next : 0 .. 2]) /\ Len(st) = n
        /\ \A i \in 1 .. n : st[i] = IF i = n THEN [node |-> t, next |-> k + 1] ELSE stack[i]
    <3>. HIDE DEF st
    <3>. QED BY <1>2, <1>5, <2>3, <2>4, ExceptSeq DEF n
  <2>6. stack' = Append(st, [node |-> v, next |-> 0])
    BY <1>4 DEF n
  <2>7. [node |-> v, next |-> 0] \in [node : g, next : 0 .. 2]
    BY <1>7
  <2>. HIDE DEF st
  <2>8. /\ stack' \in Seq([node : g, next : 0 .. 2]) /\ Len(stack') = n + 1
        /\ \A i \in 1 .. n : stack'[i] = st[i]
        /\ stack'[n + 1] = [node |-> v, next |-> 0]
    BY <1>5, <2>5, <2>6, <2>7, AppendProperties
  <2>. QED BY <1>5, <1>6, <2>5, <2>8
<1>12. /\ stack' # << >> /\ DOMAIN stack' = 1 .. n + 1 /\ Top' = stack'[n + 1]
       /\ stack'[1].node = stack[1].node
  BY <1>5, <1>11 DEF Top
<1>13. EulerCalled(g, s, f)' /\ EulerEnds(s, f, e)' /\ EulerTyped(g, e)'
  <2>1. EulerCalled(g, s, f)'
    BY <1>0, <1>3 DEF EulerCalled, Odd, Degree, Neighbours
  <2>2. EulerEnds(s, f, e)'
    BY <1>0, <1>3, <1>12 DEF EulerEnds
  <2>3. EulerTyped(g, e)'
    BY <1>2, <1>3, <1>4, <1>11 DEF EulerTyped
  <2>. QED BY <2>1, <2>2, <2>3
<1>14. EulerTaken(g, e)'
  <2>1. /\ Calls \in Seq(g) /\ Len(Calls) = n /\ \A i \in 1 .. n : Calls[i] = stack[i].node
    BY <1>2, CallsFacts DEF n
  <2>2. Calls' = Append(Calls, v)
    <3>1. /\ Append(Calls, v) \in Seq(g) /\ Len(Append(Calls, v)) = n + 1
          /\ \A i \in 1 .. n : Append(Calls, v)[i] = stack[i].node
          /\ Append(Calls, v)[n + 1] = v
      BY <1>5, <1>7, <2>1
    <3>3. /\ Calls' \in Seq(g) /\ Len(Calls') = n + 1
          /\ \A i \in 1 .. n + 1 : Calls'[i] = stack'[i].node
      BY <1>11, FrameFacts DEF Calls
    <3>4. \A i \in 1 .. n + 1 : i \in 1 .. n \/ i = n + 1
      BY <1>5
    <3>5. \A i \in 1 .. n + 1 : Calls'[i] = Append(Calls, v)[i]
      BY <1>11, <3>1, <3>3, <3>4
    <3>. QED BY <3>1, <3>3, <3>5, SeqEqual
  <2>3. Calls # << >> /\ Calls[Len(Calls)] = t
    BY <1>5, <1>6, <2>1
  <2>4. /\ LinksOf(Calls') = LinksOf(Calls) \cup {{t, v}}
        /\ IsInjective(Hops(Calls')) <=>
             IsInjective(Hops(Calls)) /\ {t, v} \notin LinksOf(Calls)
    BY <1>7, <2>1, <2>2, <2>3, HopsAppend, ZenonT(40)
  <2>5. Noted(e)' = Noted(e)
    BY <1>3, <1>12 DEF Noted
  <2>6. /\ IsInjective(Hops(Noted(e))) /\ IsInjective(Hops(Calls))
        /\ LinksOf(Noted(e)) \cap LinksOf(Calls) = {}
        /\ LinksOf(Noted(e)) \cup LinksOf(Calls) = LinksIn(links, g) \ left
    BY <1>0 DEF EulerTaken
  <2>7. LinksIn(links', g) \ left' = (LinksIn(links, g) \ left) \cup {{t, v}}
    BY <1>2, <1>3, <1>4, <1>7
  <2>8. {t, v} \notin LinksOf(Noted(e)) /\ {t, v} \notin LinksOf(Calls)
    BY <1>7, <2>6
  <2>. QED BY <2>4, <2>5, <2>6, <2>7, <2>8 DEF EulerTaken
<1>15. /\ \A x \in Nodes : Degree(left', x) =
              IF x \in {t, v} THEN Degree(left, x) - 1 ELSE Degree(left, x)
       /\ \A x \in Nodes : x \in Odd(left') <=>
              IF x \in {t, v} THEN x \notin Odd(left) ELSE x \in Odd(left)
  <2>1. t \in Nodes /\ v \in Nodes
    BY <1>1, <1>6, <1>7
  <2>2. /\ \A x \in Nodes : Degree(left \ {{t, v}}, x) =
             IF x \in {t, v} THEN Degree(left, x) - 1 ELSE Degree(left, x)
        /\ \A x \in Nodes : x \in Odd(left \ {{t, v}}) <=>
             IF x \in {t, v} THEN x \notin Odd(left) ELSE x \in Odd(left)
    <3>1. left \subseteq AllLinks /\ {t, v} \in left
      BY <1>2, <1>7
    <3>. QED BY <2>1, <3>1, LinkTaken, ZenonT(40)
  <2>3. left' = left \ {{t, v}}
    BY <1>4
  <2>. QED BY <2>2, <2>3
<1>16. EulerParity(e)'
  <2>1. \A u \in Nodes : u \in Odd(left) <=> ~ (u = e <=> u = t)
    BY <1>0, <1>3 DEF EulerParity, t
  <2>2. \A u \in Nodes : u \in Odd(left') <=> ~ (u = e <=> u = v)
    BY <1>7, <1>15, <2>1
  <2>. QED BY <1>11, <1>12, <2>2 DEF EulerParity
<1>17. EulerLoops(e)'
  <2>. SUFFICES ASSUME NEW i \in 1 .. n + 1
                PROVE  /\ i < n + 1 => stack'[i].next # 0
                       /\ stack'[i].next = 2 =>
                            \/ Degree(left', stack'[i].node) = 0
                            \/ stack'[i].node = e
    BY <1>11, <1>12 DEF EulerLoops
  <2>1. CASE i = n + 1
    BY <1>11, <2>1
  <2>2. CASE i = n
    BY <1>5, <1>6, <1>9, <1>10, <1>11, <2>2
  <2>3. CASE i \in 1 .. n /\ i # n
    <3>1. /\ stack[i].next # 0
          /\ stack[i].next = 2 =>
               \/ Degree(left, stack[i].node) = 0
               \/ stack[i].node = e
      <4>1. i \in 1 .. n /\ i < n
        BY <1>5, <2>3
      <4>2. i \in DOMAIN stack /\ i < Len(stack)
        BY <1>5, <4>1 DEF n
      <4>. QED BY <1>0, <4>2 DEF EulerLoops
    <3>2. stack[i].node \in g
      BY <1>2, <2>3, CallsFacts DEF n
    <3>3. Degree(left, stack[i].node) = 0 => Degree(left', stack[i].node) = 0
      <4>1. Degree(left, v) # 0
        <5>1. {v, t} = {t, v}
          OBVIOUS
        <5>2. t \in Neighbours(left, v)
          BY <1>1, <1>2, <1>6, <1>7, <5>1, NeighbourFacts
        <5>. QED BY <1>1, <1>2, <1>7, <5>2, NeighbourFacts
      <4>. QED BY <1>1, <1>8, <1>15, <3>2, <4>1
    <3>. QED BY <1>11, <2>3, <3>1, <3>3
  <2>. QED BY <1>5, <2>1, <2>2, <2>3
<1>18. EulerSpans'
  <2>. SUFFICES ASSUME NEW S \in SUBSET Nodes, Closed(left', S),
                       NEW l \in left', l \subseteq S
                PROVE  \E i \in 1 .. n + 1 : stack'[i].node \in S
    BY <1>12 DEF EulerSpans
  <2>1. CASE t \in S
    BY <1>5, <1>6, <1>11, <2>1
  <2>2. CASE v \in S
    BY <1>5, <1>11, <2>2
  <2>3. CASE t \notin S /\ v \notin S
    <3>1. Closed(left, S)
      BY <1>4, <2>3 DEF Closed
    <3>2. PICK i \in DOMAIN stack : stack[i].node \in S
      BY <1>0, <1>4, <3>1 DEF EulerSpans
    <3>. QED BY <1>5, <1>11, <3>2
  <2>. QED BY <2>1, <2>2, <2>3
<1>. QED BY <1>13, <1>14, <1>16, <1>17, <1>18 DEF EulerAt

(* A call returns: its list is empty and its node the end of the descent,  *)
(* so it is noted, and the next to be noted is the node of the call below. *)
LEMMA ReturnStep ==
  ASSUME links \subseteq AllLinks, NEW g, NEW s, NEW f, NEW e,
         EulerAt(g, s, f, e), Return
  PROVE  \E d \in g : EulerAt(g, s, f, d)'
<1>. DEFINE n == Len(stack)
            t == Top.node
            k == Top.next
<1>0. /\ EulerCalled(g, s, f) /\ EulerEnds(s, f, e) /\ EulerTyped(g, e)
      /\ EulerTaken(g, e) /\ EulerParity(e) /\ EulerLoops(e) /\ EulerSpans
  BY DEF EulerAt
<1>1. g \in Subgraphs(links) /\ g \subseteq Nodes
  BY <1>0, SubgraphFacts DEF EulerCalled
<1>2. /\ left \subseteq LinksIn(links, g) /\ e \in g /\ trail \in Seq(g)
      /\ stack \in Seq([node : g, next : 0 .. 2]) /\ left \subseteq AllLinks
  BY <1>0 DEF EulerTyped, LinksIn
<1>3. /\ stack # << >> /\ k >= Degree(left, t) /\ links' = links /\ left' = left
      /\ stack' = Front(stack)
      /\ trail' = IF Degree(left, t) = 0 THEN Append(trail, t) ELSE trail
  BY DEF Return
<1>4. n \in Nat /\ n > 0 /\ n \in 1 .. n /\ Top = stack[n] /\ DOMAIN stack = 1 .. n
  BY <1>2, <1>3 DEF Top
<1>5. t \in g /\ k \in 0 .. 2 /\ stack[n].node = t /\ stack[n].next = k
  BY <1>2, <1>4, CallsFacts
<1>. HIDE DEF n, t, k
<1>6. /\ k # 0 => e = t
      /\ \A u \in Nodes : u \in Odd(left) <=> ~ (u = e <=> u = t)
  BY <1>0, <1>3 DEF EulerParity, k, t
<1>7. Degree(left, t) \in Nat /\ (Degree(left, t) % 2 = 1 <=> e # t)
  <2>1. t \in Nodes
    BY <1>1, <1>5
  <2>2. Degree(left, t) \in 0 .. N - 1
    BY <1>2, <2>1, NeighbourFacts
  <2>3. t \in Odd(left) <=> e # t
    BY <1>6, <2>1
  <2>. QED BY <2>1, <2>2, <2>3, NodesFinite DEF Odd
<1>8. Degree(left, t) = 0 /\ e = t
  <2>1. CASE k = 0
    BY <1>3, <1>7, <2>1
  <2>2. CASE k = 1
    BY <1>3, <1>6, <1>7, <2>2
  <2>3. CASE k = 2
    <3>1. Degree(left, t) = 0 \/ Top.next = 0
      BY <1>0, <1>4, <1>5, <2>3 DEF EulerLoops
    <3>. QED BY <1>4, <1>5, <1>6, <2>3, <3>1
  <2>. QED BY <1>5, <2>1, <2>2, <2>3
<1>9. \A u \in Nodes : u \notin Odd(left)
  BY <1>6, <1>8
<1>10. /\ stack' \in Seq([node : g, next : 0 .. 2]) /\ Len(stack') = n - 1
       /\ DOMAIN stack' = 1 .. n - 1
       /\ \A i \in 1 .. n - 1 : stack'[i] = stack[i]
  <2>1. /\ stack' \in Seq([node : g, next : 0 .. 2]) /\ Len(stack') = n - 1
        /\ \A i \in 1 .. n - 1 : stack'[i] = stack[i]
    BY <1>2, <1>3, FrontFacts DEF n
  <2>2. DOMAIN stack' = 1 .. Len(stack')
    BY <2>1, LenProperties
  <2>. QED BY <2>1, <2>2
<1>11. /\ trail' = Append(trail, e) /\ trail' \in Seq(g) /\ Len(trail') = Len(trail) + 1
       /\ trail'[Len(trail')] = e /\ trail' # << >>
       /\ trail'[1] = IF trail = << >> THEN e ELSE trail[1]
  BY <1>2, <1>3, <1>8
<1>12. trail'[1] = f
  BY <1>0, <1>11 DEF EulerEnds
<1>13. Noted(e) = trail'
  BY <1>3, <1>11 DEF Noted
<1>14. EulerCalled(g, s, f)'
  BY <1>0, <1>3 DEF EulerCalled, Odd, Degree, Neighbours
<1>15. EulerSpans'
  <2>. SUFFICES ASSUME NEW S \in SUBSET Nodes, Closed(left, S),
                       NEW l \in left, l \subseteq S
                PROVE  \E i \in 1 .. n - 1 : stack[i].node \in S
    BY <1>3, <1>10 DEF EulerSpans
  <2>1. \A u \in Nodes : {u, t} \notin left /\ {t, u} \notin left
    <3>1. ASSUME NEW u \in Nodes PROVE {t, u} \notin left
      BY <1>1, <1>2, <1>5, <1>8, NeighbourFacts
    <3>2. \A u \in Nodes : {u, t} = {t, u}
      OBVIOUS
    <3>. QED BY <3>1, <3>2
  <2>2. Closed(left, S \ {t})
    BY <2>1 DEF Closed
  <2>3. l \subseteq S \ {t}
    BY <1>2, <2>1, LinkForm
  <2>4. PICK i \in DOMAIN stack : stack[i].node \in S \ {t}
    BY <1>0, <2>2, <2>3 DEF EulerSpans
  <2>5. i \in 1 .. n - 1
    BY <1>4, <1>5, <2>4
  <2>. QED BY <2>4, <2>5
<1>16. /\ Calls \in Seq(g) /\ Len(Calls) = n /\ \A i \in 1 .. n : Calls[i] = stack[i].node
  BY <1>2, CallsFacts DEF n
<1>17. Calls' = Front(Calls)
  <2>1. /\ Front(Calls) \in Seq(g) /\ Len(Front(Calls)) = n - 1
        /\ \A i \in 1 .. n - 1 : Front(Calls)[i] = Calls[i]
    BY <1>4, <1>16, FrontFacts
  <2>3. /\ Calls' \in Seq(g) /\ Len(Calls') = n - 1
        /\ \A i \in 1 .. n - 1 : Calls'[i] = stack'[i].node
    BY <1>10, FrameFacts DEF Calls
  <2>4. \A i \in 1 .. n - 1 : i \in 1 .. n
    BY <1>4
  <2>5. \A i \in 1 .. n - 1 : Calls'[i] = Front(Calls)[i]
    BY <1>10, <1>16, <2>1, <2>3, <2>4
  <2>. QED BY <2>1, <2>3, <2>5, SeqEqual
<1>18. /\ IsInjective(Hops(trail')) /\ IsInjective(Hops(Calls))
       /\ LinksOf(trail') \cap LinksOf(Calls) = {}
       /\ LinksOf(trail') \cup LinksOf(Calls) = LinksIn(links, g) \ left
  BY <1>0, <1>13 DEF EulerTaken
<1>19. CASE n = 1
  <2>1. stack' = << >> /\ Len(Calls') = 0 /\ Calls' \in Seq(g)
    <3>1. Len(stack') = 0 /\ Len(Calls) - 1 = 0 /\ Calls # << >>
      <4>1. Calls # << >>
        <5>1. Len(Calls) = 1 /\ Len(<< >>) = 0
          BY <1>16, <1>19
        <5>. HIDE DEF Calls
        <5>. QED BY <5>1
      <4>. QED BY <1>10, <1>16, <1>19, <4>1
    <3>. QED BY <1>10, <1>16, <1>17, <3>1, FrontFacts, EmptySeq
  <2>2. EulerEnds(s, f, e)'
    BY <1>0, <1>3, <1>5, <1>8, <1>11, <1>12, <1>19, <2>1 DEF EulerEnds
  <2>3. EulerTyped(g, e)'
    BY <1>2, <1>3, <1>10, <1>11 DEF EulerTyped
  <2>4. EulerTaken(g, e)'
    <3>1. Noted(e)' = trail'
      BY <2>1 DEF Noted
    <3>2. LinksOf(Calls) = {} /\ LinksOf(Calls') = {} /\ IsInjective(Hops(Calls'))
      <4>1. Len(Calls) <= 1 /\ Len(Calls') <= 1
        BY <1>16, <1>19, <2>1
      <4>. QED BY <1>16, <2>1, <4>1, HopsNone, Zenon
    <3>. QED BY <1>3, <1>18, <3>1, <3>2 DEF EulerTaken
  <2>5. EulerParity(e)' /\ EulerLoops(e)'
    BY <1>10, <1>19, <2>1 DEF EulerParity, EulerLoops
  <2>. QED BY <1>2, <1>14, <1>15, <2>2, <2>3, <2>4, <2>5 DEF EulerAt
<1>20. CASE n > 1
  <2>0. PICK w : w = stack[n - 1].node
    OBVIOUS
  <2>1. n - 1 \in 1 .. n - 1 /\ n - 1 \in 1 .. n
    BY <1>4, <1>20
  <2>2. w \in g /\ stack[n - 1].next # 0
    <3>1. n - 1 < n
      BY <1>4
    <3>2. stack[n - 1].next # 0
      BY <1>0, <1>4, <2>1, <3>1 DEF EulerLoops, n
    <3>. QED BY <1>2, <2>0, <2>1, <3>2, CallsFacts DEF n
  <2>3. stack' # << >> /\ Top' = stack[n - 1] /\ stack'[1] = stack[1]
    BY <1>4, <1>10, <1>20, <2>1 DEF Top
  <2>4. EulerEnds(s, f, w)'
    BY <1>0, <1>3, <1>11, <1>12, <2>3 DEF EulerEnds
  <2>5. EulerTyped(g, w)'
    BY <1>2, <1>3, <1>10, <1>11, <2>2 DEF EulerTyped
  <2>6. EulerTaken(g, w)'
    <3>1. Noted(w)' = Append(trail', w)
      BY <2>3 DEF Noted
    <3>2. /\ LinksOf(Append(trail', w)) = LinksOf(trail') \cup {{e, w}}
          /\ IsInjective(Hops(Append(trail', w))) <=>
               IsInjective(Hops(trail')) /\ {e, w} \notin LinksOf(trail')
      <4>1. trail'[Len(trail')] = e /\ trail' \in Seq(g) /\ trail' # << >>
        BY <1>11
      <4>2. /\ LinksOf(Append(trail', w)) = LinksOf(trail') \cup {{trail'[Len(trail')], w}}
            /\ IsInjective(Hops(Append(trail', w))) <=>
                 IsInjective(Hops(trail')) /\ {trail'[Len(trail')], w} \notin LinksOf(trail')
        BY <2>2, <4>1, HopsAppend
      <4>. QED BY <4>1, <4>2
    <3>3. Calls[Len(Calls) - 1] = w /\ Calls[Len(Calls)] = e /\ Len(Calls) > 1
      BY <1>4, <1>5, <1>8, <1>16, <1>20, <2>0, <2>1
    <3>4. /\ LinksOf(Calls) = LinksOf(Calls') \cup {{w, e}}
          /\ IsInjective(Hops(Calls)) <=>
               IsInjective(Hops(Calls')) /\ {w, e} \notin LinksOf(Calls')
      BY <1>16, <1>17, <3>3, HopsFront
    <3>5. {w, e} = {e, w}
      OBVIOUS
    <3>6. /\ IsInjective(Hops(Noted(w)')) /\ IsInjective(Hops(Calls'))
          /\ LinksOf(Noted(w)') \cap LinksOf(Calls') = {}
          /\ LinksOf(Noted(w)') \cup LinksOf(Calls') = LinksIn(links, g) \ left
      <4>1. {w, e} \notin LinksOf(Calls') /\ IsInjective(Hops(Calls'))
        BY <1>18, <3>4
      <4>2. {w, e} \notin LinksOf(trail')
        BY <1>18, <3>4
      <4>3. /\ IsInjective(Hops(Noted(w)'))
            /\ LinksOf(Noted(w)') = LinksOf(trail') \cup {{w, e}}
        BY <1>18, <3>1, <3>2, <3>5, <4>2
      <4>. QED BY <1>18, <3>4, <4>1, <4>2, <4>3
    <3>. QED BY <1>3, <3>6 DEF EulerTaken
  <2>7. EulerParity(w)'
    BY <1>3, <1>9, <2>0, <2>3 DEF EulerParity
  <2>8. EulerLoops(w)'
    <3>. SUFFICES ASSUME NEW i \in 1 .. n - 1
                  PROVE  /\ stack[i].next # 0
                         /\ stack[i].next = 2 => Degree(left, stack[i].node) = 0
      BY <1>3, <1>10 DEF EulerLoops
    <3>1. i \in DOMAIN stack /\ i < n
      BY <1>4
    <3>. QED BY <1>0, <1>8, <3>1 DEF EulerLoops, n
  <2>. QED BY <1>14, <1>15, <2>2, <2>4, <2>5, <2>6, <2>7, <2>8 DEF EulerAt
<1>. QED BY <1>4, <1>19, <1>20

(* When the first call has returned, no link of the subgraph is left. *)
LEMMA EulerAll ==
  ASSUME links \subseteq AllLinks, NEW g, NEW s, NEW f, NEW e,
         EulerAt(g, s, f, e), stack = << >>
  PROVE  /\ left = {} /\ trail \in Seq(g) /\ Len(trail) > 1
         /\ trail[1] = f /\ trail[Len(trail)] = s /\ f \in g /\ s \in g
         /\ IsInjective(Hops(trail)) /\ LinksOf(trail) = LinksIn(links, g)
<1>0. /\ EulerCalled(g, s, f) /\ EulerEnds(s, f, e) /\ EulerTyped(g, e)
      /\ EulerTaken(g, e) /\ EulerSpans
  BY DEF EulerAt
<1>1. g \in Subgraphs(links) /\ g \subseteq Nodes /\ f \in g /\ s \in g
  BY <1>0, SubgraphFacts DEF EulerCalled
<1>2. /\ trail \in Seq(g) /\ trail # << >> /\ trail[1] = f /\ trail[Len(trail)] = s
      /\ left \subseteq LinksIn(links, g)
  BY <1>0 DEF EulerTyped, EulerEnds
<1>3. left = {}
  <2>. SUFFICES ASSUME NEW l \in left PROVE FALSE
    OBVIOUS
  <2>1. l \subseteq Nodes
    BY <1>1, <1>2 DEF LinksIn
  <2>2. Closed(left, Nodes) /\ Nodes \in SUBSET Nodes
    BY DEF Closed
  <2>. QED BY <1>0, <2>1, <2>2 DEF EulerSpans
<1>4. Calls \in Seq(g) /\ Len(Calls) = 0
  BY DEF Calls
<1>5. LinksOf(Calls) = {}
  <2>1. Len(Calls) <= 1
    BY <1>4
  <2>. QED BY <1>4, <2>1, HopsNone, Zenon
<1>6. IsInjective(Hops(trail)) /\ LinksOf(trail) = LinksIn(links, g)
  BY <1>0, <1>3, <1>5 DEF EulerTaken, Noted
<1>7. Len(trail) > 1
  <2>. SUFFICES ASSUME Len(trail) <= 1 PROVE FALSE
    BY <1>2
  <2>1. LinksOf(trail) = {}
    BY <1>2, HopsNone
  <2>. QED BY <1>1, <1>6, <2>1, SubgraphFacts DEF LinksIn
<1>. QED BY <1>1, <1>2, <1>3, <1>6, <1>7

-----------------------------------------------------------------------------
(* Plans: sequences of paths that have no link in common. *)
Apart(ps) ==
  /\ \A i \in DOMAIN ps : IsInjective(Hops(ps[i]))
  /\ \A i, j \in DOMAIN ps : i # j => LinksOf(ps[i]) \cap LinksOf(ps[j]) = {}
Covered(ps) == UNION {LinksOf(p) : p \in ToSet(ps)}

LEMMA CoveredBy ==
  ASSUME NEW ps
  PROVE  \A l : l \in Covered(ps) <=> \E i \in DOMAIN ps : l \in LinksOf(ps[i])
BY DEF Covered, ToSet

LEMMA PathAdded ==
  ASSUME NEW S, NEW ps \in Seq(S), NEW p \in S
  PROVE  /\ Append(ps, p) \in Seq(S) /\ Len(Append(ps, p)) = Len(ps) + 1
         /\ ToSet(Append(ps, p)) = ToSet(ps) \cup {p}
         /\ Covered(Append(ps, p)) = Covered(ps) \cup LinksOf(p)
         /\ Apart(Append(ps, p)) <=>
              Apart(ps) /\ IsInjective(Hops(p)) /\ LinksOf(p) \cap Covered(ps) = {}
<1>. DEFINE r == Append(ps, p)
            n == Len(ps)
<1>1. /\ n \in Nat /\ r \in Seq(S) /\ Len(r) = n + 1 /\ DOMAIN ps = 1 .. n
      /\ DOMAIN r = 1 .. n + 1 /\ r[n + 1] = p /\ \A i \in 1 .. n : r[i] = ps[i]
  BY AppendProperties, LenProperties
<1>2. \A i \in 1 .. n + 1 : i \in 1 .. n \/ i = n + 1
  BY <1>1
<1>3. \A i \in 1 .. n : i \in 1 .. n + 1 /\ i # n + 1
  BY <1>1
<1>4. n + 1 \in 1 .. n + 1
  BY <1>1
<1>. HIDE DEF r, n
<1>5. ToSet(r) = ToSet(ps) \cup {p}
  <2>1. ASSUME NEW x \in ToSet(r) PROVE x \in ToSet(ps) \cup {p}
    <3>1. PICK i \in 1 .. n + 1 : x = r[i]
      BY <1>1 DEF ToSet
    <3>. QED BY <1>1, <1>2, <3>1 DEF ToSet
  <2>2. ASSUME NEW x \in ToSet(ps) PROVE x \in ToSet(r)
    <3>1. PICK i \in 1 .. n : x = ps[i]
      BY <1>1 DEF ToSet
    <3>. QED BY <1>1, <1>3, <3>1 DEF ToSet
  <2>3. p \in ToSet(r)
    BY <1>1, <1>4 DEF ToSet
  <2>. QED BY <2>1, <2>2, <2>3
<1>6. Covered(r) = Covered(ps) \cup LinksOf(p)
  BY <1>5 DEF Covered
<1>7. ASSUME Apart(r)
      PROVE  Apart(ps) /\ IsInjective(Hops(p)) /\ LinksOf(p) \cap Covered(ps) = {}
  <2>1. Apart(ps)
    BY <1>1, <1>3, <1>7 DEF Apart
  <2>2. IsInjective(Hops(p))
    BY <1>1, <1>4, <1>7 DEF Apart
  <2>3. ASSUME NEW l \in LinksOf(p), l \in Covered(ps) PROVE FALSE
    <3>1. PICK i \in 1 .. n : l \in LinksOf(ps[i])
      BY <1>1, <2>3, CoveredBy
    <3>2. LinksOf(r[i]) \cap LinksOf(r[n + 1]) = {}
      BY <1>1, <1>3, <1>4, <1>7 DEF Apart
    <3>. QED BY <1>1, <2>3, <3>1, <3>2
  <2>. QED BY <2>1, <2>2, <2>3
<1>8. ASSUME Apart(ps), IsInjective(Hops(p)), LinksOf(p) \cap Covered(ps) = {}
      PROVE  Apart(r)
  <2>1. \A i \in 1 .. n + 1 : IsInjective(Hops(r[i]))
    BY <1>1, <1>2, <1>8 DEF Apart
  <2>2. \A i \in 1 .. n : LinksOf(ps[i]) \subseteq Covered(ps)
    BY <1>1, CoveredBy
  <2>3. ASSUME NEW i \in 1 .. n + 1, NEW j \in 1 .. n + 1, i # j
        PROVE  LinksOf(r[i]) \cap LinksOf(r[j]) = {}
    <3>1. CASE i \in 1 .. n /\ j \in 1 .. n
      BY <1>1, <1>8, <2>3, <3>1 DEF Apart
    <3>2. CASE i \in 1 .. n /\ j = n + 1
      BY <1>1, <1>8, <2>2, <3>2
    <3>3. CASE i = n + 1 /\ j \in 1 .. n
      BY <1>1, <1>8, <2>2, <3>3
    <3>. QED BY <1>2, <2>3, <3>1, <3>2, <3>3
  <2>. QED BY <1>1, <2>1, <2>3 DEF Apart
<1>. QED BY <1>1, <1>5, <1>6, <1>7, <1>8 DEF r, n

(* A path is taken out of the queue, and kept aside.                       *)
LEMMA PathAside ==
  ASSUME NEW S, NEW ps \in Seq(S), NEW i \in 1 .. Len(ps)
  PROVE  LET r == Append(RemoveAt(ps, i), ps[i])
         IN  /\ RemoveAt(ps, i) \in Seq(S) /\ Len(r) = Len(ps)
             /\ ToSet(r) = ToSet(ps) /\ Covered(r) = Covered(ps)
             /\ Apart(ps) => Apart(r)
<1>. DEFINE n == Len(ps)
            a == SubSeq(ps, 1, i - 1)
            b == SubSeq(ps, i + 1, n)
            m == RemoveAt(ps, i)
            r == Append(m, ps[i])
            Old(j) == IF j < i THEN j ELSE IF j < n THEN j + 1 ELSE i
            New(j) == IF j < i THEN j ELSE IF j = i THEN n ELSE j - 1
<1>1. n \in Nat /\ i \in 1 .. n /\ DOMAIN ps = 1 .. n /\ ps[i] \in S
  BY LenProperties, ElementOfSeq
<1>2. m = a \o b
  BY DEF RemoveAt
<1>3. a \in Seq(S) /\ Len(a) = i - 1 /\ \A j \in 1 .. i - 1 : a[j] = ps[j]
  <2>1. /\ 1 \in Int /\ i - 1 \in Int /\ \A j \in 1 .. i - 1 : ps[j] \in S
        /\ (i - 1) - 1 + 1 = i - 1 /\ \A j \in Nat : 1 + j - 1 = j
    BY <1>1
  <2>2. /\ a \in Seq(S) /\ Len(a) = IF 1 <= i - 1 THEN (i - 1) - 1 + 1 ELSE 0
        /\ \A j \in 1 .. (i - 1) - 1 + 1 : a[j] = ps[1 + j - 1]
    BY <2>1, SubSeqProperties
  <2>. HIDE DEF a, n
  <2>3. i - 1 \in Nat
    BY <1>1
  <2>4. ASSUME NEW j \in 1 .. i - 1 PROVE a[j] = ps[j]
    <3>1. j \in 1 .. (i - 1) - 1 + 1 /\ 1 + j - 1 = j
      BY <2>3
    <3>. QED BY <2>2, <3>1
  <2>5. Len(a) = i - 1
    BY <2>2, <2>3
  <2>. QED BY <2>2, <2>4, <2>5
<1>4. b \in Seq(S) /\ Len(b) = n - i /\ \A j \in 1 .. n - i : b[j] = ps[i + j]
  <2>. HIDE DEF n
  <2>1. /\ i + 1 \in Int /\ n \in Int /\ \A j \in i + 1 .. n : ps[j] \in S
        /\ n - (i + 1) + 1 = n - i /\ \A j \in Nat : (i + 1) + j - 1 = i + j
    BY <1>1, ElementOfSeq DEF n
  <2>2. /\ b \in Seq(S) /\ Len(b) = IF i + 1 <= n THEN n - (i + 1) + 1 ELSE 0
        /\ \A j \in 1 .. n - (i + 1) + 1 : b[j] = ps[(i + 1) + j - 1]
    BY <2>1, SubSeqProperties
  <2>. HIDE DEF b
  <2>3. ASSUME NEW j \in 1 .. n - i PROVE b[j] = ps[i + j]
    <3>1. j \in 1 .. n - (i + 1) + 1 /\ (i + 1) + j - 1 = i + j
      BY <1>1
    <3>. QED BY <2>2, <3>1
  <2>4. Len(b) = n - i
    BY <1>1, <2>2
  <2>. QED BY <2>2, <2>3, <2>4
<1>. HIDE DEF n, a, b, m
<1>5. /\ m \in Seq(S) /\ Len(m) = n - 1
      /\ \A j \in 1 .. n - 1 : m[j] = IF j < i THEN ps[j] ELSE ps[j + 1]
  <2>1. /\ m \in Seq(S) /\ Len(m) = (i - 1) + (n - i)
        /\ \A j \in 1 .. (i - 1) + (n - i) :
             m[j] = IF j <= i - 1 THEN a[j] ELSE b[j - (i - 1)]
    BY <1>2, <1>3, <1>4, ConcatProperties
  <2>2. ASSUME NEW j \in 1 .. n - 1 PROVE m[j] = IF j < i THEN ps[j] ELSE ps[j + 1]
    <3>1. j \in 1 .. (i - 1) + (n - i)
      BY <1>1
    <3>2. CASE j < i
      BY <1>1, <1>3, <2>1, <3>1, <3>2
    <3>3. CASE ~ (j < i)
      <4>1. /\ ~ (j <= i - 1) /\ j - (i - 1) \in 1 .. n - i
            /\ i + (j - (i - 1)) = j + 1
        BY <1>1, <3>3
      <4>. QED BY <1>4, <2>1, <3>1, <3>3, <4>1
    <3>. QED BY <3>2, <3>3
  <2>3. (i - 1) + (n - i) = n - 1
    BY <1>1
  <2>. QED BY <2>1, <2>2, <2>3
<1>6. r \in Seq(S) /\ Len(r) = n /\ DOMAIN r = 1 .. n
  BY <1>1, <1>5, AppendProperties, LenProperties
<1>7. ASSUME NEW j \in 1 .. n PROVE Old(j) \in 1 .. n /\ r[j] = ps[Old(j)]
  <2>1. CASE j < n
    <3>1. j \in 1 .. n - 1
      BY <1>1, <2>1
    <3>2. r[j] = m[j]
      BY <1>1, <1>5, <3>1, AppendProperties
    <3>. QED BY <1>1, <1>5, <2>1, <3>1, <3>2
  <2>2. CASE ~ (j < n)
    <3>1. j = n /\ n = Len(m) + 1
      BY <1>1, <1>5, <2>2
    <3>2. r[Len(m) + 1] = ps[i]
      BY <1>1, <1>5, AppendProperties
    <3>. QED BY <1>1, <2>2, <3>1, <3>2
  <2>. QED BY <2>1, <2>2
<1>8. \A j \in 1 .. n : New(j) \in 1 .. n /\ Old(New(j)) = j
  BY <1>1
<1>9. \A j, k \in 1 .. n : Old(j) = Old(k) => j = k
  BY <1>1
<1>. HIDE DEF r, Old, New
<1>10. ToSet(r) = ToSet(ps)
  <2>1. ASSUME NEW x \in ToSet(r) PROVE x \in ToSet(ps)
    <3>1. PICK j \in 1 .. n : x = r[j]
      BY <1>6 DEF ToSet
    <3>. QED BY <1>1, <1>7, <3>1 DEF ToSet
  <2>2. ASSUME NEW x \in ToSet(ps) PROVE x \in ToSet(r)
    <3>1. PICK j \in 1 .. n : x = ps[j]
      BY <1>1 DEF ToSet
    <3>2. x = r[New(j)] /\ New(j) \in 1 .. n
      BY <1>7, <1>8, <3>1
    <3>. QED BY <1>6, <3>2 DEF ToSet
  <2>. QED BY <2>1, <2>2
<1>11. ASSUME Apart(ps) PROVE Apart(r)
  <2>1. \A j \in 1 .. n : IsInjective(Hops(r[j]))
    BY <1>1, <1>7, <1>11 DEF Apart
  <2>2. ASSUME NEW j \in 1 .. n, NEW k \in 1 .. n, j # k
        PROVE  LinksOf(r[j]) \cap LinksOf(r[k]) = {}
    BY <1>1, <1>7, <1>9, <1>11, <2>2 DEF Apart
  <2>. QED BY <1>6, <2>1, <2>2 DEF Apart
<1>. QED BY <1>5, <1>6, <1>10, <1>11 DEF r, n, m, Covered

-----------------------------------------------------------------------------
(* Networks that hang together. *)
LEMMA ConnectedOne ==
  ASSUME NEW ls, ls \subseteq AllLinks, Connected(ls)
  PROVE  /\ \E g : Subgraphs(ls) = {g}
         /\ \A u \in Nodes, g \in Subgraphs(ls) : u \notin g => Neighbours(ls, u) = {}
<1>1. Subgraphs(ls) \subseteq SUBSET Nodes
  BY SubgraphFacts
<1>2. IsFiniteSet(Subgraphs(ls))
  BY <1>1, NodesFinite, FS_SUBSET, FS_Subset
<1>3. PICK g : Subgraphs(ls) = {g}
  BY <1>2, FS_Singleton DEF Connected
<1>4. ASSUME NEW u \in Nodes, NEW v \in Nodes, {u, v} \in ls PROVE u \in g
  BY <1>3, <1>4, SubgraphOf
<1>. QED BY <1>3, <1>4 DEF Neighbours

(* The subgraphs of what is left of a network hang together with its paths. *)
LEMMA SubgraphTouched ==
  ASSUME NEW ls, ls \subseteq AllLinks, Connected(ls), NEW ms, ms \subseteq ls,
         NEW ps \in Seq(Seq(Nodes)), Covered(ps) = ls \ ms, ls # ms,
         NEW g \in Subgraphs(ms)
  PROVE  \E u \in g, i \in DOMAIN ps : u \in ToSet(ps[i])
<1>. SUFFICES ASSUME \A u \in g, i \in DOMAIN ps : u \notin ToSet(ps[i]) PROVE FALSE
  OBVIOUS
<1>1. /\ g \subseteq Nodes /\ Closed(ms, g) /\ \E l \in ms : l \subseteq g
      /\ ms \subseteq AllLinks
  BY SubgraphFacts
<1>2. ASSUME NEW l \in ls, l \notin ms PROVE l \cap g = {}
  <2>1. PICK i \in DOMAIN ps : l \in LinksOf(ps[i])
    BY <1>2, CoveredBy
  <2>2. ps[i] \in Seq(Nodes)
    OBVIOUS
  <2>3. PICK j \in 1 .. Len(ps[i]) - 1 : l = {ps[i][j], ps[i][j + 1]}
    BY <2>1, <2>2, HopsFacts
  <2>4. j \in DOMAIN ps[i] /\ j + 1 \in DOMAIN ps[i]
    BY <2>2
  <2>5. ps[i][j] \in ToSet(ps[i]) /\ ps[i][j + 1] \in ToSet(ps[i])
    BY <2>4 DEF ToSet
  <2>. QED BY <2>3, <2>5
<1>3. Closed(ls, g)
  BY <1>1, <1>2 DEF Closed
<1>4. PICK h : Subgraphs(ls) = {h}
  BY ConnectedOne
<1>5. h \in Subgraphs(ls) /\ \A l \in ls : l \subseteq h
  BY <1>4, SubgraphOf
<1>6. h \subseteq g
  <2>1. PICK l \in ms : l \subseteq g
    BY <1>1
  <2>2. l \subseteq h /\ \E u \in Nodes : u \in l
    BY <1>1, <1>5, LinkForm
  <2>3. g \cap h # {}
    BY <2>1, <2>2
  <2>. QED BY <1>1, <1>3, <1>5, <2>3, SubgraphFacts
<1>7. PICK l \in ls : l \notin ms
  OBVIOUS
<1>8. l \subseteq g /\ l \cap g = {} /\ \E u \in Nodes : u \in l
  BY <1>2, <1>5, <1>6, <1>7, LinkForm
<1>. QED BY <1>8

(* Without the links of a subgraph, none of its nodes is odd.              *)
LEMMA SubgraphTaken ==
  ASSUME NEW ls, ls \subseteq AllLinks, NEW g \in Subgraphs(ls)
  PROVE  Odd(ls \ LinksIn(ls, g)) = Odd(ls) \ g
<1>. DEFINE ks == ls \ LinksIn(ls, g)
<1>1. g \subseteq Nodes /\ Closed(ls, g)
  BY SubgraphFacts
<1>2. ASSUME NEW u \in Nodes, u \in g PROVE u \notin Odd(ks)
  <2>1. Neighbours(ks, u) = {}
    BY <1>1, <1>2 DEF Neighbours, LinksIn, Closed
  <2>2. Degree(ks, u) = 0
    BY <2>1, FS_EmptySet DEF Degree
  <2>. QED BY <2>2 DEF Odd
<1>3. ASSUME NEW u \in Nodes, u \notin g PROVE u \in Odd(ks) <=> u \in Odd(ls)
  <2>1. Neighbours(ks, u) = Neighbours(ls, u)
    BY <1>3 DEF Neighbours, LinksIn
  <2>. QED BY <2>1 DEF Odd, Degree
<1>. QED BY <1>2, <1>3 DEF Odd

(* Without the links of a path, its two ends are odd if they were even; when *)
(* they are the same node, nothing is otherwise.                           *)
LEMMA PathTaken ==
  ASSUME NEW ls, ls \subseteq AllLinks, NEW p \in Seq(Nodes), Len(p) > 1,
         LinksOf(p) \subseteq ls, IsInjective(Hops(p))
  PROVE  \A x \in Nodes : x \in Odd(ls \ LinksOf(p)) <=>
           ~ (x \in Odd(ls) <=> ~ (x = p[1] <=> x = p[Len(p)]))
<1>. DEFINE n == Len(p)
            Gone(k) == {l \in LinksOf(p) : \E i \in 1 .. k - 1 : l = {p[i], p[i + 1]}}
            Right(k) == \A x \in Nodes : x \in Odd(ls \ Gone(k)) <=>
                          ~ (x \in Odd(ls) <=> ~ (x = p[1] <=> x = p[k]))
            T == {k \in Nat : k + 1 <= n => Right(k + 1)}
<1>1. n \in Nat /\ n > 1 /\ \A i \in 1 .. n : p[i] \in Nodes
  OBVIOUS
<1>2. /\ \A l : l \in LinksOf(p) <=> \E i \in 1 .. n - 1 : l = {p[i], p[i + 1]}
      /\ \A i, j \in 1 .. n - 1 : {p[i], p[i + 1]} = {p[j], p[j + 1]} => i = j
  BY HopsFacts
<1>. HIDE DEF n, Right
<1>3. 0 \in T
  <2>. DEFINE k == 0 + 1
  <2>1. k = 1 /\ 1 .. k - 1 = {}
    OBVIOUS
  <2>. HIDE DEF k
  <2>2. Gone(k) = {}
    BY <2>1
  <2>. HIDE DEF Gone
  <2>3. ls \ Gone(k) = ls
    BY <2>2
  <2>4. Right(k)
    BY <2>1, <2>3 DEF Right
  <2>. QED BY <2>4 DEF k
<1>4. ASSUME NEW k \in Nat, k \in T PROVE k + 1 \in T
  <2>. SUFFICES ASSUME (k + 1) + 1 <= n PROVE Right((k + 1) + 1)
    OBVIOUS
  <2>. DEFINE u == p[k + 1]
              v == p[(k + 1) + 1]
  <2>1. /\ k + 1 \in 1 .. n - 1 /\ k + 1 \in 1 .. n /\ (k + 1) + 1 \in 1 .. n
        /\ ((k + 1) + 1) - 1 = k + 1 /\ (k + 1) - 1 = k
        /\ \A i \in 1 .. k : i \in 1 .. n - 1 /\ i # k + 1
        /\ \A i \in 1 .. k + 1 : i \in 1 .. k \/ i = k + 1
        /\ \A i \in 1 .. k : i \in 1 .. k + 1
    BY <1>1
  <2>2. Right(k + 1)
    BY <1>1, <1>4
  <2>3. u \in Nodes /\ v \in Nodes /\ {u, v} \in LinksOf(p)
    BY <1>1, <1>2, <2>1
  <2>4. {u, v} \notin Gone(k + 1)
    BY <1>2, <2>1
  <2>5. Gone((k + 1) + 1) = Gone(k + 1) \cup {{u, v}}
    <3>1. ASSUME NEW l \in Gone((k + 1) + 1) PROVE l \in Gone(k + 1) \cup {{u, v}}
      <4>1. PICK i \in 1 .. k + 1 : l = {p[i], p[i + 1]}
        BY <2>1
      <4>. QED BY <2>1, <4>1
    <3>2. ASSUME NEW l \in Gone(k + 1) PROVE l \in Gone((k + 1) + 1)
      BY <2>1
    <3>3. {u, v} \in Gone((k + 1) + 1)
      BY <2>1, <2>3
    <3>. HIDE DEF Gone
    <3>. QED BY <3>1, <3>2, <3>3
  <2>. HIDE DEF Gone, u, v
  <2>6. ls \ Gone((k + 1) + 1) = (ls \ Gone(k + 1)) \ {{u, v}}
    BY <2>5
  <2>7. /\ {u, v} \in ls \ Gone(k + 1) /\ ls \ Gone(k + 1) \subseteq AllLinks
    BY <2>3, <2>4
  <2>8. \A x \in Nodes : x \in Odd((ls \ Gone(k + 1)) \ {{u, v}}) <=>
          IF x \in {u, v} THEN x \notin Odd(ls \ Gone(k + 1))
                          ELSE x \in Odd(ls \ Gone(k + 1))
    BY <2>3, <2>7, LinkTaken
  <2>9. u # v
    BY <2>3, <2>7, LinkForm
  <2>10. \A x \in Nodes : x \in Odd((ls \ Gone(k + 1)) \ {{u, v}}) <=>
           ~ (x \in Odd(ls) <=> ~ (x = p[1] <=> x = v))
    BY <2>2, <2>8, <2>9 DEF u, Right
  <2>. QED BY <2>6, <2>10 DEF v, Right
<1>5. Nat \subseteq T
  <2>. HIDE DEF T
  <2>. QED BY <1>3, <1>4, SetInduction
<1>6. Right(n)
  <2>1. n - 1 \in Nat /\ (n - 1) + 1 = n
    BY <1>1
  <2>2. (n - 1) + 1 <= n => Right((n - 1) + 1)
    BY <1>5, <2>1
  <2>. QED BY <1>1, <2>1, <2>2
<1>7. Gone(n) = LinksOf(p)
  BY <1>2
<1>. HIDE DEF Gone
<1>8. \A x \in Nodes : x \in Odd(ls \ LinksOf(p)) <=>
        ~ (x \in Odd(ls) <=> ~ (x = p[1] <=> x = p[n]))
  BY <1>6, <1>7 DEF Right
<1>. QED BY <1>8 DEF n

-----------------------------------------------------------------------------
(* Shortest paths. *)
LEMMA WithinMore ==
  ASSUME NEW ls, ls \subseteq AllLinks, NEW u \in Nodes,
         NEW j \in Nat, NEW k \in Nat, j <= k, k <= N
  PROVE  Within(ls, u)[j] \subseteq Within(ls, u)[k]
<1>. DEFINE W == Within(ls, u)
            T == {d \in Nat : j + d <= N => W[j] \subseteq W[j + d]}
<1>0. \A i \in Nat : i <= N => (i < N => W[i] \subseteq W[i + 1])
  BY WithinGrows, Zenon
<1>. HIDE DEF W
<1>1. \A i \in Nat : i < N => W[i] \subseteq W[i + 1]
  BY <1>0, NodesFinite
<1>2. 0 \in T
  OBVIOUS
<1>3. ASSUME NEW d \in Nat, d \in T PROVE d + 1 \in T
  <2>1. j + d \in Nat /\ (j + d) + 1 = j + (d + 1) /\ (j + (d + 1) <= N => j + d < N)
    BY NodesFinite
  <2>. SUFFICES ASSUME j + (d + 1) <= N PROVE W[j] \subseteq W[j + (d + 1)]
    OBVIOUS
  <2>2. W[j] \subseteq W[j + d]
    BY <1>3, <2>1, NodesFinite
  <2>3. W[j + d] \subseteq W[(j + d) + 1]
    BY <1>1, <2>1
  <2>. QED BY <2>1, <2>2, <2>3
<1>4. Nat \subseteq T
  <2>. HIDE DEF T
  <2>. QED BY <1>2, <1>3, SetInduction
<1>5. k - j \in Nat /\ j + (k - j) = k
  OBVIOUS
<1>. QED BY <1>4, <1>5 DEF W

LEMMA DistanceIs ==
  ASSUME NEW ls, ls \subseteq AllLinks, NEW u \in Nodes, NEW v \in Component(ls, u)
  PROVE  LET d == Distance(ls, u, v)
         IN  /\ d \in 0 .. N /\ v \in Within(ls, u)[d]
             /\ \A j \in Nat : j < d => v \notin Within(ls, u)[j]
<1>. DEFINE W == Within(ls, u)
            d == Distance(ls, u, v)
            T == {k \in Nat : k <= N => \A j \in 0 .. k : v \notin W[j]}
<1>1. \E k \in 0 .. N : v \in W[k] /\ (k = 0 \/ v \notin W[k - 1])
  <2>. SUFFICES ASSUME \A k \in 0 .. N : v \in W[k] => k # 0 /\ v \in W[k - 1]
                PROVE  FALSE
    OBVIOUS
  <2>. HIDE DEF W
  <2>1. 0 \in T
    BY NodesFinite
  <2>2. ASSUME NEW k \in Nat, k \in T PROVE k + 1 \in T
    <3>. SUFFICES ASSUME k + 1 <= N, NEW j \in 0 .. k + 1, v \in W[j] PROVE FALSE
      OBVIOUS
    <3>1. j # 0 /\ v \in W[j - 1] /\ j - 1 \in 0 .. k /\ k <= N
      BY NodesFinite
    <3>. QED BY <2>2, <3>1
  <2>3. Nat \subseteq T
    <3>. HIDE DEF T
    <3>. QED BY <2>1, <2>2, SetInduction
  <2>4. v \notin W[N]
    BY <2>3, NodesFinite
  <2>. QED BY <2>4 DEF W, Component
<1>2. d \in 0 .. N /\ v \in W[d] /\ (d = 0 \/ v \notin W[d - 1])
  BY <1>1 DEF Distance
<1>. HIDE DEF W, d
<1>3. ASSUME NEW j \in Nat, j < d, v \in W[j] PROVE FALSE
  <2>1. d - 1 \in Nat /\ j <= d - 1 /\ d - 1 <= N /\ d # 0
    BY <1>2, <1>3, NodesFinite
  <2>2. W[j] \subseteq W[d - 1]
    BY <2>1, WithinMore DEF W
  <2>. QED BY <1>2, <1>3, <2>1, <2>2
<1>. QED BY <1>2, <1>3 DEF W, d

(* A path as short as the distance of its ends comes to no node twice: from *)
(* the second visit there would be a shorter way.                           *)
LEMMA ShortestOnce ==
  ASSUME NEW ls, ls \subseteq AllLinks, NEW s \in Nodes, NEW v \in Component(ls, s),
         NEW p \in Seq(Nodes), Len(p) = Distance(ls, s, v) + 1,
         p[1] = v, p[Len(p)] = s, LinksOf(p) \subseteq ls
  PROVE  IsInjective(Hops(p))
<1>. DEFINE W == Within(ls, s)
            d == Distance(ls, s, v)
<1>0. d \in 0 .. N /\ \A j \in Nat : j < d => v \notin W[j]
  BY DistanceIs, Zenon
<1>1. /\ d \in Nat /\ d <= N
      /\ \A j \in Nat : j < d => v \notin W[j]
  BY <1>0, NodesFinite
<1>2. /\ W[0] = {s}
      /\ \A k \in Nat : k + 1 <= N => W[k + 1] = Farther(ls, W[k])
  BY WithinSteps
<1>3. \A k \in Nat : k <= N => W[k] \in SUBSET Nodes
  BY WithinGrows
<1>4. Len(p) = d + 1
  OBVIOUS
<1>. HIDE DEF W, d
<1>5. /\ \A i \in 1 .. d + 1 : p[i] \in Nodes
      /\ \A i \in 1 .. d : {p[i], p[i + 1]} \in ls /\ {p[i + 1], p[i]} \in ls
  <2>1. \A i \in 1 .. d + 1 : p[i] \in Nodes
    BY <1>1, <1>4
  <2>2. (d + 1) - 1 = d
    BY <1>1
  <2>3. ASSUME NEW i \in 1 .. d PROVE {p[i], p[i + 1]} \in ls
    <3>1. {p[i], p[i + 1]} \in LinksOf(p)
      BY <1>4, <2>2, HopsFacts
    <3>. QED BY <3>1
  <2>4. \A i \in 1 .. d : {p[i + 1], p[i]} = {p[i], p[i + 1]}
    OBVIOUS
  <2>. QED BY <2>1, <2>3, <2>4
<1>6. ASSUME NEW k \in Nat, k + 1 <= N, NEW x \in W[k], NEW y \in Nodes, {x, y} \in ls
      PROVE  y \in W[k + 1]
  <2>1. W[k + 1] = Farther(ls, W[k]) /\ W[k] \in SUBSET Nodes
    BY <1>2, <1>3, <1>6, NodesFinite
  <2>. QED BY <1>6, <2>1, FartherFacts
<1>7. \A k \in Nat : k <= d => p[(d + 1) - k] \in W[k]
  <2>. DEFINE T == {k \in Nat : k <= d => p[(d + 1) - k] \in W[k]}
  <2>1. 0 \in T
    <3>1. (d + 1) - 0 = d + 1
      BY <1>1
    <3>. QED BY <1>2, <1>4, <3>1
  <2>2. ASSUME NEW k \in Nat, k \in T PROVE k + 1 \in T
    <3>. SUFFICES ASSUME k + 1 <= d PROVE p[(d + 1) - (k + 1)] \in W[k + 1]
      OBVIOUS
    <3>. DEFINE i == (d + 1) - (k + 1)
    <3>1. /\ i \in 1 .. d /\ i \in 1 .. d + 1 /\ i + 1 = (d + 1) - k
          /\ k <= d /\ k + 1 <= N
      BY <1>1, NodesFinite
    <3>2. p[i + 1] \in W[k]
      BY <2>2, <3>1
    <3>. HIDE DEF i
    <3>3. p[i] \in Nodes /\ {p[i + 1], p[i]} \in ls
      BY <1>5, <3>1
    <3>4. p[i] \in W[k + 1]
      BY <1>6, <3>1, <3>2, <3>3
    <3>. QED BY <3>4 DEF i
  <2>3. Nat \subseteq T
    <3>. HIDE DEF T
    <3>. QED BY <2>1, <2>2, SetInduction
  <2>. QED BY <2>3
<1>8. \A t, k \in Nat : t <= d /\ k + t <= N /\ p[t + 1] \in W[k] => v \in W[k + t]
  <2>. DEFINE T == {t \in Nat : \A k \in Nat :
                      t <= d /\ k + t <= N /\ p[t + 1] \in W[k] => v \in W[k + t]}
  <2>1. 0 \in T
    OBVIOUS
  <2>2. ASSUME NEW t \in Nat, t \in T PROVE t + 1 \in T
    <3>. SUFFICES ASSUME NEW k \in Nat, t + 1 <= d, k + (t + 1) <= N,
                         p[(t + 1) + 1] \in W[k]
                  PROVE  v \in W[k + (t + 1)]
      OBVIOUS
    <3>1. /\ t + 1 \in 1 .. d /\ t + 1 \in 1 .. d + 1 /\ k + 1 \in Nat /\ k + 1 <= N
          /\ t <= d /\ (k + 1) + t = k + (t + 1) /\ (k + 1) + t <= N
      BY <1>1, NodesFinite
    <3>2. p[t + 1] \in Nodes /\ {p[(t + 1) + 1], p[t + 1]} \in ls
      BY <1>5, <3>1
    <3>3. p[t + 1] \in W[k + 1]
      BY <1>6, <3>1, <3>2
    <3>. QED BY <2>2, <3>1, <3>3
  <2>3. Nat \subseteq T
    <3>. HIDE DEF T
    <3>. QED BY <2>1, <2>2, SetInduction
  <2>. QED BY <2>3
<1>9. ASSUME NEW i \in 1 .. d + 1, NEW m \in 1 .. d + 1, i < m, p[i] = p[m]
      PROVE  FALSE
  <2>. DEFINE k == (d + 1) - m
              t == i - 1
  <2>1. /\ k \in Nat /\ t \in Nat /\ k <= d /\ t <= d /\ k + t <= N /\ k + t < d
        /\ k + t \in Nat /\ (d + 1) - k = m /\ t + 1 = i
    BY <1>1, <1>9, NodesFinite
  <2>. HIDE DEF k, t
  <2>2. p[t + 1] \in W[k]
    BY <1>7, <1>9, <2>1
  <2>3. v \in W[k + t]
    BY <1>8, <2>1, <2>2
  <2>. QED BY <1>1, <2>1, <2>3
<1>10. ASSUME NEW i \in 1 .. d, NEW j \in 1 .. d, i < j,
              {p[i], p[i + 1]} = {p[j], p[j + 1]}
       PROVE  FALSE
  <2>1. p[i] = p[j] \/ p[i] = p[j + 1]
    BY <1>10
  <2>2. i \in 1 .. d + 1 /\ j \in 1 .. d + 1 /\ j + 1 \in 1 .. d + 1 /\ i < j + 1
    BY <1>1, <1>10
  <2>. QED BY <1>9, <1>10, <2>1, <2>2
<1>11. ASSUME NEW i \in 1 .. d, NEW j \in 1 .. d, {p[i], p[i + 1]} = {p[j], p[j + 1]}
       PROVE  i = j
  <2>1. i < j \/ j < i \/ i = j
    BY <1>1
  <2>2. {p[j], p[j + 1]} = {p[i], p[i + 1]}
    BY <1>11
  <2>. QED BY <1>10, <1>11, <2>1, <2>2
<1>12. Len(p) - 1 = d /\ d \in Int
  BY <1>1, <1>4
<1>. QED BY <1>11, <1>12, HopsTo

(* my_path: a way between two odd nodes of the subgraph, along no link twice. *)
LEMMA MyPathsFacts ==
  ASSUME links \subseteq AllLinks, NEW g \in Subgraphs(links),
         Cardinality(OddIn(g)) > 2, NEW p \in MyPaths(g)
  PROVE  /\ p \in Seq(Nodes) /\ Len(p) > 1
         /\ LinksOf(p) \subseteq LinksIn(links, g) /\ IsInjective(Hops(p))
         /\ p[1] \in OddIn(g) /\ p[Len(p)] \in OddIn(g) /\ p[1] # p[Len(p)]
<1>1. PICK s \in OddIn(g), v \in OddIn(g) :
        /\ \A w \in OddIn(g) : Distance(links, s, w) <= Distance(links, s, v)
        /\ p \in [1 .. Distance(links, s, v) + 1 -> g]
        /\ p[1] = v /\ p[Len(p)] = s /\ LinksOf(p) \subseteq links
  <2>. DEFINE Far(s) == {v \in OddIn(g) : \A w \in OddIn(g) :
                           Distance(links, s, w) <= Distance(links, s, v)}
              Ways(s, v) == {q \in [1 .. Distance(links, s, v) + 1 -> g] :
                               /\ q[1] = v /\ q[Len(q)] = s
                               /\ LinksOf(q) \subseteq links}
  <2>1. MyPaths(g) = UNION {UNION {Ways(s, v) : v \in Far(s)} : s \in OddIn(g)}
    BY DEF MyPaths
  <2>2. ASSUME NEW s, NEW v PROVE v \in Far(s) <=>
          /\ v \in OddIn(g)
          /\ \A w \in OddIn(g) : Distance(links, s, w) <= Distance(links, s, v)
    OBVIOUS
  <2>3. ASSUME NEW s, NEW v PROVE p \in Ways(s, v) <=>
          /\ p \in [1 .. Distance(links, s, v) + 1 -> g]
          /\ p[1] = v /\ p[Len(p)] = s /\ LinksOf(p) \subseteq links
    OBVIOUS
  <2>. HIDE DEF Far, Ways
  <2>4. PICK s \in OddIn(g) : p \in UNION {Ways(s, v) : v \in Far(s)}
    BY <2>1
  <2>5. PICK v \in Far(s) : p \in Ways(s, v)
    BY <2>4
  <2>. QED BY <2>2, <2>3, <2>5, Zenon
<1>. DEFINE d == Distance(links, s, v)
<1>2. /\ g \subseteq Nodes /\ OddIn(g) \subseteq g
      /\ s \in Nodes /\ s \in g /\ v \in g /\ Component(links, s) = g
  BY SubgraphFacts DEF OddIn
<1>3. /\ d \in 0 .. N /\ v \in Within(links, s)[d]
      /\ \A w \in OddIn(g) : /\ Distance(links, s, w) \in 0 .. N
                             /\ w \in Within(links, s)[Distance(links, s, w)]
  BY <1>2, DistanceIs
<1>4. d # 0 /\ v # s
  <2>1. PICK w \in OddIn(g) : w # s
    <3>. SUFFICES ASSUME \A w \in OddIn(g) : w = s PROVE FALSE
      OBVIOUS
    <3>1. OddIn(g) = {s}
      BY <1>1
    <3>2. Cardinality(OddIn(g)) = 1
      BY <3>1, FS_Singleton, Zenon
    <3>. QED BY <3>2
  <2>2. Within(links, s)[0] = {s}
    BY WithinSteps
  <2>3. Distance(links, s, w) # 0
    BY <1>3, <2>1, <2>2
  <2>4. d # 0
    BY <1>1, <1>3, <2>1, <2>3, NodesFinite
  <2>5. v # s
    <3>. SUFFICES ASSUME v = s PROVE FALSE
      OBVIOUS
    <3>1. \A j \in Nat : j < d => v \notin Within(links, s)[j]
      BY <1>2, DistanceIs
    <3>2. 0 < d
      BY <1>3, <2>4, NodesFinite
    <3>. QED BY <2>2, <3>1, <3>2
  <2>. QED BY <2>4, <2>5
<1>. HIDE DEF d
<1>5. d \in Nat /\ d > 0 /\ p \in [1 .. d + 1 -> g]
  BY <1>1, <1>3, <1>4, NodesFinite DEF d
<1>6. p \in Seq(g) /\ p \in Seq(Nodes) /\ Len(p) = d + 1 /\ \A i \in 1 .. d + 1 : p[i] \in g
  BY <1>2, <1>5
<1>7. IsInjective(Hops(p))
  <2>1. v \in Component(links, s)
    BY <1>2
  <2>. QED BY <1>1, <1>2, <1>6, <2>1, ShortestOnce DEF d
<1>8. ASSUME NEW l \in LinksOf(p) PROVE l \in LinksIn(links, g)
  <2>1. PICK i \in 1 .. Len(p) - 1 : l = {p[i], p[i + 1]}
    BY <1>6, HopsFacts
  <2>2. i \in 1 .. d + 1 /\ i + 1 \in 1 .. d + 1
    BY <1>5, <1>6, <2>1
  <2>3. l \subseteq g
    BY <1>6, <2>1, <2>2
  <2>. QED BY <1>1, <2>3 DEF LinksIn
<1>. QED BY <1>1, <1>4, <1>5, <1>6, <1>7, <1>8

-----------------------------------------------------------------------------
(* find_path: PlanInv at the start, and after each action.                 *)
LEMMA PlanFacts ==
  ASSUME PlanInv
  PROVE  /\ net \in Networks /\ net \subseteq AllLinks /\ Connected(net)
         /\ links \subseteq net /\ links \subseteq AllLinks
         /\ queue \in Seq(Seq(Nodes)) /\ joined \in Seq(Nodes)
         /\ Plans \in Seq(Seq(Nodes)) /\ \A p \in ToSet(Plans) : Len(p) > 1
         /\ Covered(Plans) = net \ links /\ Apart(Plans)
<1>1. PlanTyped /\ EachLinkOnOnePath
  BY DEF PlanInv
<1>2. /\ net \in Networks /\ links \subseteq net
      /\ queue \in Seq(Seq(Nodes)) /\ joined \in Seq(Nodes)
      /\ \A p \in ToSet(Plans) : Len(p) > 1
      /\ phase # "raised"
  BY <1>1 DEF PlanTyped
<1>3. net \subseteq AllLinks /\ Connected(net)
  BY <1>2, NetworksAssumption
<1>4. Plans \in Seq(Seq(Nodes))
  BY <1>2 DEF Plans
<1>5. Covered(Plans) = net \ links /\ Apart(Plans)
  BY <1>1, <1>2 DEF EachLinkOnOnePath, Covered, Apart
<1>. QED BY <1>2, <1>3, <1>4, <1>5

LEMMA DegreesTyped ==
  ASSUME links \subseteq AllLinks
  PROVE  DegreesNow \in [Nodes -> 0 .. N - 1]
<1>1. \A u \in Nodes : Degree(links, u) \in 0 .. N - 1
  BY NeighbourFacts
<1>. QED BY <1>1 DEF DegreesNow

LEMMA PlanStarts == PlanInit => PlanInv
<1>. SUFFICES ASSUME PlanInit PROVE PlanInv
  OBVIOUS
<1>1. /\ net \in Networks /\ links = net /\ degree = [u \in Nodes |-> 0]
      /\ queue = << >> /\ todo = {} /\ phase = "while" /\ joined = << >>
      /\ left = {} /\ stack = << >> /\ trail = << >> /\ Plans = << >>
  BY DEF PlanInit, Plans
<1>2. PlanTyped
  BY <1>1, NAssumption DEF PlanTyped, ToSet
<1>3. EachLinkOnOnePath
  BY <1>1 DEF EachLinkOnOnePath, ToSet
<1>4. PlanStands /\ EulerStands
  BY <1>1 DEF PlanStands, EulerStands
<1>5. PlanCount
  BY <1>1, OddFinite DEF PlanCount
<1>. QED BY <1>2, <1>3, <1>4, <1>5 DEF PlanInv

(* Links and paths as they were: nothing is said anew of them.             *)
LEMMA PlansKept ==
  ASSUME PlanInv, net' = net, links' = links, phase' # "raised",
         Covered(Plans') = Covered(Plans), Apart(Plans'), Len(Plans') = Len(Plans)
  PROVE  EachLinkOnOnePath' /\ PlanCount'
<1>1. Covered(Plans) = net \ links
  BY PlanFacts
<1>2. EachLinkOnOnePath'
  BY <1>1 DEF EachLinkOnOnePath, Covered, Apart
<1>3. PlanCount'
  <2>1. PlanCount
    BY DEF PlanInv
  <2>2. Odd(net)' = Odd(net) /\ Odd(links)' = Odd(links)
    BY DEF Odd, Degree, Neighbours
  <2>. QED BY <2>1, <2>2 DEF PlanCount
<1>. QED BY <1>2, <1>3

(* The only subgraph of the network has a circuit: no node is odd.         *)
LEMMA FirstCircuitStep == PlanInv /\ FirstCircuit => PlanInv'
<1>. SUFFICES ASSUME PlanInv, FirstCircuit PROVE PlanInv'
  OBVIOUS
<1>1. PICK g \in EvenSubgraphs : \E u \in g : CallEuler(g, u)
  BY DEF FirstCircuit
<1>2. PICK u \in g : CallEuler(g, u)
  BY <1>1
<1>3. /\ phase = "while" /\ queue = << >> /\ degree' = DegreesNow
      /\ net' = net /\ links' = links /\ queue' = queue /\ todo' = todo
      /\ joined' = joined /\ phase' = "euler"
  BY <1>2 DEF FirstCircuit, CallEuler
<1>4. PlanTyped /\ PlanStands /\ PlanCount
  BY DEF PlanInv
<1>5. joined = << >> /\ todo = {} /\ Plans = << >> /\ Plans' = << >>
  BY <1>3, <1>4 DEF PlanStands, Plans
<1>6. links \subseteq AllLinks /\ net \subseteq AllLinks /\ Connected(net)
  BY PlanFacts
<1>7. links = net
  <2>1. Covered(Plans) = {} /\ Covered(Plans) = net \ links /\ links \subseteq net
    BY <1>5, PlanFacts DEF Covered, ToSet
  <2>. QED BY <2>1
<1>8. /\ g \in Subgraphs(links) /\ g \subseteq Nodes
      /\ \A x \in g : Degree(links, x) % 2 = 0
  BY <1>6, SubgraphFacts DEF EvenSubgraphs
<1>9. ASSUME NEW x \in Nodes PROVE x \notin Odd(links)
  <2>1. CASE x \in g
    BY <1>8, <2>1 DEF Odd
  <2>2. CASE x \notin g
    <3>1. Neighbours(links, x) = {}
      BY <1>6, <1>7, <1>8, <2>2, ConnectedOne
    <3>2. Degree(links, x) = 0
      BY <3>1, FS_EmptySet DEF Degree
    <3>. QED BY <3>2 DEF Odd
  <2>. QED BY <2>1, <2>2
<1>10. Odd(net) = {} /\ Odd(net)' = {}
  BY <1>3, <1>7, <1>9 DEF Odd, Degree, Neighbours
<1>11. EulerAt(g, u, u, u)'
  <2>1. \A x \in g : x \in Odd(links) <=> u # u /\ x \in {u, u}
    BY <1>8, <1>9
  <2>. QED BY <1>2, <1>3, <1>6, <1>8, <2>1, EulerStarts
<1>12. Purpose(g, u, u)'
  BY <1>3, <1>5, <1>10 DEF Purpose
<1>13. EulerStands'
  BY <1>8, <1>11, <1>12 DEF EulerStands
<1>14. PlanTyped'
  BY <1>3, <1>4, <1>5, <1>6, DegreesTyped DEF PlanTyped, ToSet
<1>15. PlanStands'
  BY <1>3, <1>5 DEF PlanStands
<1>16. EachLinkOnOnePath' /\ PlanCount'
  <2>1. Plans' = Plans /\ Apart(Plans)
    BY <1>5, PlanFacts
  <2>. QED BY <1>3, <2>1, PlansKept
<1>. QED BY <1>13, <1>14, <1>15, <1>16 DEF PlanInv

(* A subgraph whose nodes are all even touches a path: the network hangs    *)
(* together.  So path_iden finds one, and the circuit starts on it.        *)
LEMMA JoinCircuitStep == PlanInv /\ JoinCircuit => PlanInv'
<1>. SUFFICES ASSUME PlanInv, JoinCircuit PROVE PlanInv'
  OBVIOUS
<1>. DEFINE touching(u) == {i \in DOMAIN queue : u \in ToSet(queue[i])}
            shared(g) == {u \in g : touching(u) # {}}
<1>1. /\ phase = "while" /\ queue # << >> /\ degree' = DegreesNow
      /\ net' = net /\ links' = links /\ todo' = todo
  BY DEF JoinCircuit
<1>2. PICK g \in EvenSubgraphs :
        IF shared(g) = {}
        THEN phase' = "raised" /\ UNCHANGED <<queue, eulerVars>>
        ELSE \E u \in shared(g) :
               LET i == Min(touching(u))
               IN  /\ queue' = RemoveAt(queue, i) /\ joined' = queue[i]
                   /\ CallEuler(g, u)
  BY DEF JoinCircuit
<1>3. PlanTyped /\ PlanStands /\ PlanCount
  BY DEF PlanInv
<1>4. /\ net \subseteq AllLinks /\ Connected(net) /\ links \subseteq net
      /\ links \subseteq AllLinks /\ queue \in Seq(Seq(Nodes))
      /\ Covered(Plans) = net \ links /\ Apart(Plans)
      /\ \A p \in ToSet(Plans) : Len(p) > 1
  BY PlanFacts
<1>5. joined = << >> /\ todo = {} /\ Plans = queue
  BY <1>1, <1>3 DEF PlanStands, Plans
<1>6. /\ g \in Subgraphs(links) /\ g \subseteq Nodes
      /\ \A x \in g : Degree(links, x) % 2 = 0
  BY <1>4, SubgraphFacts DEF EvenSubgraphs
<1>7. net # links
  <2>1. 1 \in DOMAIN queue /\ queue[1] \in Seq(Nodes) /\ queue[1] \in ToSet(Plans)
    <3>1. 1 \in DOMAIN queue
      BY <1>1, <1>4
    <3>. QED BY <1>4, <1>5, <3>1 DEF ToSet
  <2>2. {queue[1][1], queue[1][1 + 1]} \in LinksOf(queue[1])
    <3>1. 1 \in 1 .. Len(queue[1]) - 1
      BY <1>4, <2>1
    <3>. QED BY <2>1, <3>1, HopsFacts
  <2>. QED BY <1>4, <1>5, <2>1, <2>2, CoveredBy
<1>8. shared(g) # {}
  BY <1>4, <1>5, <1>6, <1>7, SubgraphTouched
<1>9. PICK u \in shared(g) :
        /\ queue' = RemoveAt(queue, Min(touching(u)))
        /\ joined' = queue[Min(touching(u))]
        /\ CallEuler(g, u)
  BY <1>2, <1>8
<1>10. PICK i \in touching(u) : i = Min(touching(u))
  <2>1. touching(u) \in SUBSET Nat /\ touching(u) # {}
    BY <1>4
  <2>. HIDE DEF touching
  <2>2. \E x \in touching(u) : \A y \in touching(u) : x <= y
    BY <2>1, LeastNat
  <2>3. Min(touching(u)) \in touching(u)
    BY <2>2 DEF Min
  <2>. QED BY <2>3
<1>11. u \in g /\ i \in 1 .. Len(queue) /\ i \in DOMAIN queue /\ u \in ToSet(queue[i])
  BY <1>4
<1>. HIDE DEF touching, shared
<1>12. queue' = RemoveAt(queue, i) /\ joined' = queue[i] /\ phase' = "euler"
  BY <1>9, <1>10 DEF CallEuler
<1>13. joined' \in Seq(Nodes) /\ joined' # << >> /\ u \in ToSet(joined')
  <2>1. queue[i] \in ToSet(Plans) /\ queue[i] \in Seq(Nodes)
    BY <1>4, <1>5, <1>11 DEF ToSet
  <2>2. Len(queue[i]) > 1
    BY <1>4, <2>1
  <2>. QED BY <1>11, <1>12, <2>1, <2>2
<1>14. Plans' = Append(RemoveAt(queue, i), queue[i])
  BY <1>12, <1>13 DEF Plans
<1>15. /\ queue' \in Seq(Seq(Nodes)) /\ Len(Plans') = Len(Plans)
       /\ ToSet(Plans') = ToSet(Plans) /\ Covered(Plans') = Covered(Plans)
       /\ Apart(Plans')
  <2>. DEFINE r == Append(RemoveAt(queue, i), queue[i])
  <2>1. /\ RemoveAt(queue, i) \in Seq(Seq(Nodes)) /\ Len(r) = Len(queue)
        /\ ToSet(r) = ToSet(queue) /\ Covered(r) = Covered(queue)
        /\ Apart(queue) => Apart(r)
    BY <1>4, <1>11, PathAside, Zenon
  <2>. HIDE DEF r
  <2>. QED BY <1>4, <1>5, <1>12, <1>14, <2>1 DEF r
<1>16. EulerAt(g, u, u, u)'
  <2>1. \A x \in g : x \in Odd(links) <=> u # u /\ x \in {u, u}
    BY <1>6 DEF Odd
  <2>2. CallEuler(g, u)
    BY <1>9
  <2>. QED BY <1>1, <1>4, <1>6, <1>11, <2>1, <2>2, EulerStarts
<1>17. Purpose(g, u, u)'
  BY <1>1, <1>5, <1>13 DEF Purpose
<1>18. EulerStands'
  BY <1>6, <1>11, <1>16, <1>17 DEF EulerStands
<1>19. PlanTyped'
  BY <1>1, <1>3, <1>4, <1>5, <1>12, <1>13, <1>15, DegreesTyped DEF PlanTyped
<1>20. PlanStands'
  BY <1>1, <1>5, <1>12 DEF PlanStands
<1>21. EachLinkOnOnePath' /\ PlanCount'
  BY <1>1, <1>12, <1>15, PlansKept
<1>. QED BY <1>18, <1>19, <1>20, <1>21 DEF PlanInv

(* No subgraph has a circuit, and there is a link: some node is odd, now    *)
(* and from the start.                                                     *)
LEMMA StartCutsStep == PlanInv /\ StartCuts => PlanInv'
<1>. SUFFICES ASSUME PlanInv, StartCuts PROVE PlanInv'
  OBVIOUS
<1>1. /\ phase = "while" /\ links # {} /\ EvenSubgraphs = {}
      /\ degree' = DegreesNow /\ todo' = Subgraphs(links) /\ phase' = "for"
      /\ net' = net /\ links' = links /\ queue' = queue
      /\ joined' = joined /\ left' = left /\ stack' = stack /\ trail' = trail
  BY DEF StartCuts, eulerVars
<1>2. PlanTyped /\ PlanStands /\ PlanCount
  BY DEF PlanInv
<1>3. links \subseteq AllLinks /\ links \subseteq net /\ Apart(Plans)
  BY PlanFacts
<1>4. Plans' = Plans
  BY <1>1 DEF Plans
<1>5. PICK g \in Subgraphs(links) : \E u \in g : Degree(links, u) % 2 # 0
  <2>1. \E g : g \in Subgraphs(links)
    BY <1>1, <1>3, SubgraphOf
  <2>. QED BY <1>1, <2>1 DEF EvenSubgraphs
<1>6. PICK u \in g : Degree(links, u) % 2 # 0
  BY <1>5
<1>7. u \in Odd(links)
  <2>1. g \subseteq Nodes
    BY <1>3, SubgraphFacts
  <2>2. u \in Nodes /\ Degree(links, u) \in 0 .. N - 1
    BY <1>3, <2>1, NeighbourFacts
  <2>. QED BY <1>6, <2>2, NodesFinite DEF Odd
<1>8. Odd(net) # {}
  <2>. SUFFICES ASSUME Odd(net) = {} PROVE FALSE
    OBVIOUS
  <2>1. links = net
    BY <1>1, <1>2 DEF PlanCount
  <2>. QED BY <1>7, <2>1
<1>9. PlanTyped'
  BY <1>1, <1>2, <1>3, <1>4, DegreesTyped DEF PlanTyped
<1>10. PlanStands'
  <2>1. Odd(net)' # {}
    BY <1>1, <1>8 DEF Odd, Degree, Neighbours
  <2>2. \A h \in Subgraphs(links) : h \subseteq Nodes
    BY <1>3, SubgraphFacts
  <2>3. \A h \in todo' : \A x \in h : degree'[x] = Degree(links', x)
    BY <1>1, <2>2 DEF DegreesNow
  <2>. QED BY <1>1, <1>2, <2>1, <2>3 DEF PlanStands
<1>11. EachLinkOnOnePath' /\ PlanCount'
  BY <1>1, <1>3, <1>4, PlansKept
<1>12. EulerStands'
  BY <1>1 DEF EulerStands
<1>. QED BY <1>9, <1>10, <1>11, <1>12 DEF PlanInv

LEMMA EndCutsStep == PlanInv /\ EndCuts => PlanInv'
<1>. SUFFICES ASSUME PlanInv, EndCuts PROVE PlanInv'
  OBVIOUS
<1>1. /\ phase = "for" /\ todo = {} /\ phase' = "while" /\ net' = net
      /\ links' = links /\ degree' = degree /\ queue' = queue /\ todo' = todo
      /\ joined' = joined /\ left' = left /\ stack' = stack /\ trail' = trail
  BY DEF EndCuts, eulerVars
<1>2. PlanTyped /\ PlanStands /\ Apart(Plans)
  BY PlanFacts DEF PlanInv
<1>3. Plans' = Plans
  BY <1>1 DEF Plans
<1>4. PlanTyped' /\ PlanStands' /\ EulerStands'
  BY <1>1, <1>2, <1>3 DEF PlanTyped, PlanStands, EulerStands
<1>5. EachLinkOnOnePath' /\ PlanCount'
  BY <1>1, <1>2, <1>3, PlansKept
<1>. QED BY <1>4, <1>5 DEF PlanInv

LEMMA FinishStep == PlanInv /\ Finish => PlanInv'
<1>. SUFFICES ASSUME PlanInv, Finish PROVE PlanInv'
  OBVIOUS
<1>1. /\ phase = "while" /\ links = {} /\ phase' = "done" /\ net' = net
      /\ links' = links /\ degree' = degree /\ queue' = queue /\ todo' = todo
      /\ joined' = joined /\ left' = left /\ stack' = stack /\ trail' = trail
  BY DEF Finish, eulerVars
<1>2. PlanTyped /\ PlanStands /\ Apart(Plans)
  BY PlanFacts DEF PlanInv
<1>3. Plans' = Plans
  BY <1>1 DEF Plans
<1>4. PlanTyped' /\ PlanStands' /\ EulerStands'
  BY <1>1, <1>2, <1>3 DEF PlanTyped, PlanStands, EulerStands
<1>5. EachLinkOnOnePath' /\ PlanCount'
  BY <1>1, <1>2, <1>3, PlansKept
<1>. QED BY <1>4, <1>5 DEF PlanInv

(* While the subgraphs are cut, degree is that of the links left in those   *)
(* still to be cut, so the nodes odd by it are odd.                        *)
LEMMA OddToCut ==
  ASSUME PlanInv, phase = "for", NEW g \in todo
  PROVE  /\ g \in Subgraphs(links) /\ g \subseteq Nodes
         /\ OddIn(g) = g \cap Odd(links)
<1>1. g \in Subgraphs(links) /\ \A u \in g : degree[u] = Degree(links, u)
  BY DEF PlanInv, PlanTyped, PlanStands
<1>2. links \subseteq AllLinks
  BY PlanFacts
<1>3. g \subseteq Nodes
  BY <1>1, <1>2, SubgraphFacts
<1>4. ASSUME NEW u \in g PROVE degree[u] % 2 # 0 <=> u \in Odd(links)
  <2>1. u \in Nodes /\ Degree(links, u) \in 0 .. N - 1 /\ degree[u] = Degree(links, u)
    BY <1>1, <1>2, <1>3, NeighbourFacts
  <2>. HIDE DEF Degree
  <2>. QED BY <2>1, NodesFinite DEF Odd
<1>. QED BY <1>1, <1>3, <1>4 DEF OddIn

(* What stays to be cut when links of another subgraph are taken.          *)
LEMMA ToCutKept ==
  ASSUME PlanInv, NEW g \in Subgraphs(links), NEW ms, ms \subseteq LinksIn(links, g),
         NEW hs, hs \subseteq todo, g \notin hs
  PROVE  /\ hs \subseteq Subgraphs(links \ ms)
         /\ \A h \in hs : \A u \in h : degree[u] = Degree(links \ ms, u)
<1>1. links \subseteq AllLinks /\ todo \subseteq Subgraphs(links)
  BY PlanFacts DEF PlanInv, PlanTyped
<1>2. \A h \in todo : \A u \in h : degree[u] = Degree(links, u)
  BY DEF PlanInv, PlanStands
<1>3. ASSUME NEW h \in hs
      PROVE  /\ h \in Subgraphs(links \ ms)
             /\ \A u \in h : Degree(links \ ms, u) = Degree(links, u)
  <2>1. /\ h \in Subgraphs(links) /\ g # h
        /\ links \subseteq AllLinks /\ g \in Subgraphs(links)
    BY <1>1
  <2>2. ms \subseteq LinksIn(links, g)
    OBVIOUS
  <2>3. h \in Subgraphs(links \ ms)
    BY <2>1, <2>2, SubgraphKept
  <2>4. ASSUME NEW u \in h PROVE Degree(links \ ms, u) = Degree(links, u)
    BY <2>1, <2>2, DegreeKept
  <2>. QED BY <2>3, <2>4
<1>4. ASSUME NEW h \in hs, NEW u \in h PROVE degree[u] = Degree(links \ ms, u)
  BY <1>2, <1>3
<1>. QED BY <1>3, <1>4

(* The path p takes the links it goes along, and two odd nodes or none.    *)
LEMMA PathTakes ==
  ASSUME PlanInv, NEW p \in Seq(Nodes), Len(p) > 1, IsInjective(Hops(p)),
         LinksOf(p) \subseteq links, joined = << >>,
         net' = net, links' = links \ LinksOf(p), phase' # "raised",
         queue' = Append(queue, p), joined' = << >>
  PROVE  /\ Plans' = Append(Plans, p) /\ Len(Plans') = Len(Plans) + 1
         /\ queue' \in Seq(Seq(Nodes)) /\ \A q \in ToSet(Plans') : Len(q) > 1
         /\ EachLinkOnOnePath'
<1>1. /\ queue \in Seq(Seq(Nodes)) /\ \A q \in ToSet(Plans) : Len(q) > 1
      /\ Covered(Plans) = net \ links /\ Apart(Plans) /\ links \subseteq net
  BY PlanFacts
<1>2. Plans = queue /\ Plans' = Append(queue, p)
  BY DEF Plans
<1>3. /\ Append(queue, p) \in Seq(Seq(Nodes))
      /\ Len(Append(queue, p)) = Len(queue) + 1
      /\ ToSet(Append(queue, p)) = ToSet(queue) \cup {p}
      /\ Covered(Append(queue, p)) = Covered(queue) \cup LinksOf(p)
      /\ Apart(Append(queue, p)) <=>
           Apart(queue) /\ IsInjective(Hops(p)) /\ LinksOf(p) \cap Covered(queue) = {}
  BY <1>1, PathAdded
<1>4. Covered(Plans') = net' \ links' /\ Apart(Plans')
  BY <1>1, <1>2, <1>3
<1>5. EachLinkOnOnePath'
  BY <1>4 DEF EachLinkOnOnePath, Covered, Apart
<1>. QED BY <1>1, <1>2, <1>3, <1>5

LEMMA TwoFewer ==
  ASSUME NEW S, IsFiniteSet(S), NEW a \in S, NEW b \in S, a # b
  PROVE  Cardinality(S) = Cardinality(S \ {a, b}) + 2
<1>1. IsFiniteSet(S \ {a}) /\ Cardinality(S \ {a}) = Cardinality(S) - 1
  BY FS_RemoveElement
<1>2. b \in S \ {a} /\ (S \ {a}) \ {b} = S \ {a, b}
  OBVIOUS
<1>3. Cardinality(S \ {a, b}) = Cardinality(S \ {a}) - 1
  BY <1>1, <1>2, FS_RemoveElement
<1>4. Cardinality(S) \in Nat
  BY FS_CardinalityType
<1>. QED BY <1>1, <1>3, <1>4

(* An Euler trail starts at one of the two odd nodes, and will end at the   *)
(* other.                                                                  *)
LEMMA CutTrailStep ==
  ASSUME PlanInv, Cut, NEW g \in todo, todo' = todo \ {g}, CutTrail(g)
  PROVE  PlanInv'
<1>1. /\ phase = "for" /\ net' = net /\ degree' = degree /\ links' = links
      /\ queue' = queue /\ joined' = joined /\ Cardinality(OddIn(g)) = 2
  BY DEF Cut, CutTrail
<1>2. PICK s \in OddIn(g) : CallEuler(g, s)
  BY DEF CutTrail
<1>3. phase' = "euler"
  BY <1>2 DEF CallEuler
<1>4. /\ g \in Subgraphs(links) /\ g \subseteq Nodes
      /\ OddIn(g) = g \cap Odd(links)
  BY <1>1, OddToCut
<1>5. PlanTyped /\ PlanStands /\ PlanCount
  BY DEF PlanInv
<1>6. links \subseteq AllLinks /\ links \subseteq net /\ Apart(Plans)
  BY PlanFacts
<1>7. Plans' = Plans /\ joined = << >> /\ Odd(net) # {}
  BY <1>1, <1>5 DEF Plans, PlanStands
<1>8. PICK f : OddIn(g) = {s, f} /\ s # f
  <2>1. IsFiniteSet(OddIn(g))
    BY <1>4, NodesFinite, FS_Subset
  <2>2. IsFiniteSet(OddIn(g) \ {s}) /\ Cardinality(OddIn(g) \ {s}) = 2 - 1
    BY <1>1, <2>1, FS_RemoveElement
  <2>3. PICK f : OddIn(g) \ {s} = {f}
    <3>1. Cardinality(OddIn(g) \ {s}) = 1
      BY <2>2
    <3>. QED BY <2>2, <3>1, FS_Singleton, Zenon
  <2>. QED BY <2>3
<1>9. s \in g /\ f \in g /\ \A u \in g : u \in Odd(links) <=> s # f /\ u \in {s, f}
  BY <1>4, <1>8
<1>10. EulerAt(g, s, f, f)'
  BY <1>1, <1>2, <1>4, <1>6, <1>9, EulerStarts
<1>11. Odd(net)' = Odd(net)
  BY <1>1 DEF Odd, Degree, Neighbours
<1>12. Purpose(g, s, f)'
  BY <1>1, <1>7, <1>8, <1>11 DEF Purpose
<1>13. EulerStands'
  BY <1>4, <1>9, <1>10, <1>12 DEF EulerStands
<1>14. PlanTyped'
  BY <1>1, <1>3, <1>5, <1>7 DEF PlanTyped
<1>15. PlanStands'
  <2>1. \A h \in todo' : \A u \in h : degree'[u] = Degree(links', u)
    BY <1>1, <1>5 DEF PlanStands
  <2>. QED BY <1>3, <2>1 DEF PlanStands
<1>16. EachLinkOnOnePath' /\ PlanCount'
  BY <1>1, <1>3, <1>6, <1>7, PlansKept
<1>. QED BY <1>13, <1>14, <1>15, <1>16 DEF PlanInv

(* A shortest path: its links are there to be removed, and its ends are     *)
(* even without them.                                                      *)
LEMMA CutShortestStep ==
  ASSUME PlanInv, Cut, NEW g \in todo, todo' = todo \ {g}, CutShortest(g)
  PROVE  PlanInv'
<1>1. /\ phase = "for" /\ net' = net /\ degree' = degree
      /\ joined' = joined /\ left' = left /\ stack' = stack /\ trail' = trail
      /\ Cardinality(OddIn(g)) > 2
  BY DEF Cut, CutShortest, eulerVars
<1>2. PICK p \in MyPaths(g) :
        /\ queue' = Append(queue, p)
        /\ IF Removable(links, p)
           THEN links' = links \ LinksOf(p) /\ UNCHANGED phase
           ELSE phase' = "raised" /\ UNCHANGED links
  BY DEF CutShortest
<1>3. /\ g \in Subgraphs(links) /\ g \subseteq Nodes
      /\ OddIn(g) = g \cap Odd(links)
  BY <1>1, OddToCut
<1>4. links \subseteq AllLinks /\ links \subseteq net
  BY PlanFacts
<1>5. /\ p \in Seq(Nodes) /\ Len(p) > 1
      /\ LinksOf(p) \subseteq LinksIn(links, g) /\ IsInjective(Hops(p))
      /\ p[1] \in OddIn(g) /\ p[Len(p)] \in OddIn(g) /\ p[1] # p[Len(p)]
  BY <1>1, <1>3, <1>4, MyPathsFacts
<1>6. LinksOf(p) \subseteq links
  BY <1>5 DEF LinksIn
<1>7. links' = links \ LinksOf(p) /\ phase' = phase
  BY <1>2, <1>5, <1>6 DEF Removable
<1>8. PlanTyped /\ PlanStands /\ PlanCount
  BY DEF PlanInv
<1>9. joined = << >> /\ joined' = << >> /\ Odd(net) # {}
  BY <1>1, <1>8 DEF PlanStands
<1>10. /\ Plans' = Append(Plans, p) /\ Len(Plans') = Len(Plans) + 1
       /\ queue' \in Seq(Seq(Nodes)) /\ \A q \in ToSet(Plans') : Len(q) > 1
       /\ EachLinkOnOnePath'
  <2>1. phase' # "raised"
    BY <1>1, <1>7
  <2>. QED BY <1>1, <1>2, <1>5, <1>6, <1>7, <1>9, <2>1, PathTakes
<1>11. /\ todo' \subseteq Subgraphs(links')
       /\ \A h \in todo' : \A u \in h : degree'[u] = Degree(links', u)
  <2>. DEFINE hs == todo \ {g}
              ms == LinksOf(p)
  <2>1. hs \subseteq todo /\ g \notin hs /\ ms \subseteq LinksIn(links, g)
    BY <1>5
  <2>. HIDE DEF hs, ms
  <2>2. hs \subseteq Subgraphs(links \ ms)
    BY <1>3, <2>1, ToCutKept
  <2>3. \A h \in hs : \A u \in h : degree[u] = Degree(links \ ms, u)
    BY <1>3, <2>1, ToCutKept
  <2>. QED BY <1>1, <1>7, <2>2, <2>3 DEF hs, ms
<1>12. PlanTyped'
  BY <1>1, <1>4, <1>7, <1>8, <1>9, <1>10, <1>11 DEF PlanTyped
<1>13. Odd(net)' = Odd(net)
  BY <1>1 DEF Odd, Degree, Neighbours
<1>14. PlanStands' /\ EulerStands'
  BY <1>1, <1>7, <1>8, <1>11, <1>13 DEF PlanStands, EulerStands
<1>15. PlanCount'
  <2>1. Odd(links') = Odd(links) \ {p[1], p[Len(p)]}
    <3>1. \A x \in Nodes : x \in Odd(links \ LinksOf(p)) <=>
            ~ (x \in Odd(links) <=> ~ (x = p[1] <=> x = p[Len(p)]))
      BY <1>4, <1>5, <1>6, PathTaken
    <3>2. Odd(links') \subseteq Nodes /\ Odd(links) \subseteq Nodes
      BY DEF Odd
    <3>. QED BY <1>3, <1>5, <1>7, <3>1, <3>2
  <2>2. Cardinality(Odd(links)) = Cardinality(Odd(links')) + 2
    BY <1>3, <1>5, <2>1, OddFinite, TwoFewer
  <2>3. 2 * Len(Plans) + Cardinality(Odd(links)) = Cardinality(Odd(net))
    BY <1>8, <1>9 DEF PlanCount
  <2>4. Cardinality(Odd(links')) \in Nat /\ Len(Plans) \in Nat
    BY OddFinite, PlanFacts
  <2>5. 2 * Len(Plans') + Cardinality(Odd(links')) = Cardinality(Odd(net))
    BY <1>10, <2>2, <2>3, <2>4
  <2>6. Odd(links)' = Odd(links')
    BY DEF Odd, Degree, Neighbours
  <2>. QED BY <1>9, <1>13, <2>5, <2>6 DEF PlanCount
<1>. QED BY <1>10, <1>12, <1>14, <1>15 DEF PlanInv

LEMMA CutStep == PlanInv /\ Cut => PlanInv'
<1>. SUFFICES ASSUME PlanInv, Cut PROVE PlanInv'
  OBVIOUS
<1>1. PICK g \in todo : todo' = todo \ {g} /\ (CutTrail(g) \/ CutShortest(g))
  BY DEF Cut
<1>. QED BY <1>1, CutTrailStep, CutShortestStep

(* Inside euler(), nothing of find_path changes. *)
LEMMA InsideEuler ==
  ASSUME PlanInv, phase = "euler", net' = net, links' = links, degree' = degree,
         queue' = queue, todo' = todo, phase' = phase, joined' = joined
  PROVE  PlanTyped' /\ PlanStands' /\ EachLinkOnOnePath' /\ PlanCount'
<1>1. PlanTyped /\ PlanStands /\ Apart(Plans)
  BY PlanFacts DEF PlanInv
<1>2. Plans' = Plans
  BY DEF Plans
<1>3. PlanTyped' /\ PlanStands'
  BY <1>1, <1>2 DEF PlanTyped, PlanStands
<1>4. EachLinkOnOnePath' /\ PlanCount'
  BY <1>1, <1>2, PlansKept
<1>. QED BY <1>3, <1>4

LEMMA PurposeKept ==
  ASSUME NEW g, NEW s, NEW f, Purpose(g, s, f),
         net' = net, queue' = queue, todo' = todo, joined' = joined
  PROVE  Purpose(g, s, f)'
<1>1. Odd(net)' = Odd(net)
  BY DEF Odd, Degree, Neighbours
<1>. QED BY <1>1 DEF Purpose

LEMMA FollowKeeps == PlanInv /\ Follow => PlanInv'
<1>. SUFFICES ASSUME PlanInv, Follow PROVE PlanInv'
  OBVIOUS
<1>1. /\ phase = "euler" /\ net' = net /\ links' = links /\ degree' = degree
      /\ queue' = queue /\ todo' = todo /\ phase' = phase /\ joined' = joined
  BY DEF Follow
<1>0. PICK g \in SUBSET Nodes : \E s, f, e \in g : EulerAt(g, s, f, e) /\ Purpose(g, s, f)
  BY <1>1 DEF PlanInv, EulerStands
<1>2. PICK s \in g, f \in g, e \in g : EulerAt(g, s, f, e) /\ Purpose(g, s, f)
  BY <1>0
<1>3. PlanTyped' /\ PlanStands' /\ EachLinkOnOnePath' /\ PlanCount'
  BY <1>1, InsideEuler
<1>4. EulerAt(g, s, f, e)' /\ Purpose(g, s, f)'
  <2>1. links \subseteq AllLinks
    BY PlanFacts
  <2>2. EulerAt(g, s, f, e)'
    BY <1>2, <2>1, FollowStep
  <2>. QED BY <1>1, <1>2, <2>2, PurposeKept
<1>5. EulerStands'
  BY <1>2, <1>3, <1>4 DEF EulerStands
<1>. QED BY <1>3, <1>5 DEF PlanInv

LEMMA ReturnKeeps == PlanInv /\ Return => PlanInv'
<1>. SUFFICES ASSUME PlanInv, Return PROVE PlanInv'
  OBVIOUS
<1>1. /\ phase = "euler" /\ net' = net /\ links' = links /\ degree' = degree
      /\ queue' = queue /\ todo' = todo /\ phase' = phase /\ joined' = joined
  BY DEF Return
<1>0. PICK g \in SUBSET Nodes : \E s, f, e \in g : EulerAt(g, s, f, e) /\ Purpose(g, s, f)
  BY <1>1 DEF PlanInv, EulerStands
<1>2. PICK s \in g, f \in g, e \in g : EulerAt(g, s, f, e) /\ Purpose(g, s, f)
  BY <1>0
<1>3. PlanTyped' /\ PlanStands' /\ EachLinkOnOnePath' /\ PlanCount'
  BY <1>1, InsideEuler
<1>4. PICK d \in g : EulerAt(g, s, f, d)'
  <2>1. links \subseteq AllLinks
    BY PlanFacts
  <2>. QED BY <1>2, <2>1, ReturnStep
<1>5. Purpose(g, s, f)'
  BY <1>1, <1>2, PurposeKept
<1>6. EulerStands'
  BY <1>2, <1>4, <1>5 DEF EulerStands
<1>. QED BY <1>3, <1>6 DEF PlanInv

(* The trail has every link of its subgraph: they can be removed, and it    *)
(* is a path of its own, or a circuit that lengthens the path set aside.   *)
LEMMA EulerResult ==
  ASSUME PlanInv, EulerReturns, NEW g \in SUBSET Nodes, NEW s \in g, NEW f \in g,
         NEW e \in g, EulerAt(g, s, f, e)
  PROVE  LET result == Reverse(trail)
         IN  /\ g \in Subgraphs(links)
             /\ \A u \in g : u \in Odd(links) <=> s # f /\ u \in {s, f}
             /\ result \in Seq(Nodes) /\ Len(result) > 1
             /\ result[1] = s /\ result[Len(result)] = f
             /\ IsInjective(Hops(result)) /\ LinksOf(result) = LinksIn(links, g)
             /\ links' = links \ LinksIn(links, g)
             /\ queue' = Append(queue, IF joined = << >> THEN result
                                       ELSE AddPath(joined, result))
             /\ phase' = IF todo = {} THEN "while" ELSE "for"
<1>. DEFINE result == Reverse(trail)
<1>1. links \subseteq AllLinks /\ phase = "euler" /\ stack = << >>
  BY PlanFacts DEF EulerReturns
<1>2. /\ g \in Subgraphs(links)
      /\ \A u \in g : u \in Odd(links) <=> s # f /\ u \in {s, f}
  BY DEF EulerAt, EulerCalled
<1>3. /\ trail \in Seq(g) /\ Len(trail) > 1
      /\ trail[1] = f /\ trail[Len(trail)] = s
      /\ IsInjective(Hops(trail)) /\ LinksOf(trail) = LinksIn(links, g)
  BY <1>1, EulerAll
<1>4. trail \in Seq(Nodes) /\ trail # << >>
  BY <1>3
<1>5. /\ result \in Seq(Nodes) /\ Len(result) = Len(trail)
      /\ result[1] = s /\ result[Len(trail)] = f
      /\ LinksOf(result) = LinksIn(links, g) /\ IsInjective(Hops(result))
  BY <1>3, <1>4, HopsReverse
<1>6. Removable(links, result)
  BY <1>5 DEF Removable, LinksIn
<1>7. /\ links' = links \ LinksOf(result)
      /\ queue' = Append(queue, IF joined = << >> THEN result
                                ELSE AddPath(joined, result))
      /\ phase' = IF todo = {} THEN "while" ELSE "for"
  BY <1>6 DEF EulerReturns
<1>. HIDE DEF result
<1>. QED BY <1>2, <1>3, <1>5, <1>7 DEF result

(* A circuit that is spliced in: its path is longer, all else as it was.   *)
LEMMA CircuitJoined ==
  ASSUME PlanInv, joined # << >>, NEW g \in Subgraphs(links),
         NEW c \in Seq(Nodes), Len(c) > 1, c[1] = c[Len(c)], c[1] \in ToSet(joined),
         IsInjective(Hops(c)), LinksOf(c) = LinksIn(links, g),
         \A u \in g : u \notin Odd(links),
         net' = net, links' = links \ LinksIn(links, g), phase' # "raised",
         queue' = Append(queue, AddPath(joined, c)), joined' = << >>
  PROVE  /\ queue' \in Seq(Seq(Nodes)) /\ \A q \in ToSet(Plans') : Len(q) > 1
         /\ EachLinkOnOnePath' /\ PlanCount'
<1>. DEFINE r == AddPath(joined, c)
<1>1. /\ queue \in Seq(Seq(Nodes)) /\ joined \in Seq(Nodes) /\ net \subseteq AllLinks
      /\ Covered(Plans) = net \ links /\ Apart(Plans) /\ links \subseteq net
      /\ \A q \in ToSet(Plans) : Len(q) > 1
      /\ links \subseteq AllLinks
  BY PlanFacts
<1>2. /\ r \in Seq(Nodes) /\ Len(r) = Len(joined) + Len(c) - 1
      /\ LinksOf(r) = LinksOf(joined) \cup LinksOf(c)
      /\ IsInjective(Hops(joined)) /\ IsInjective(Hops(c))
           /\ LinksOf(joined) \cap LinksOf(c) = {} => IsInjective(Hops(r))
  BY <1>1, HopsSplice
<1>. HIDE DEF r
<1>3. Plans = Append(queue, joined) /\ Plans' = Append(queue, r) /\ queue' = Plans'
  BY DEF Plans, r
<1>4. /\ Len(Plans) = Len(queue) + 1 /\ ToSet(Plans) = ToSet(queue) \cup {joined}
      /\ Covered(Plans) = Covered(queue) \cup LinksOf(joined)
      /\ Apart(queue) /\ IsInjective(Hops(joined))
      /\ LinksOf(joined) \cap Covered(queue) = {}
  BY <1>1, <1>3, PathAdded
<1>5. LinksIn(links, g) \subseteq links /\ LinksIn(links, g) \cap Covered(Plans) = {}
  BY <1>1 DEF LinksIn
<1>6. /\ IsInjective(Hops(r)) /\ LinksOf(r) = LinksOf(joined) \cup LinksIn(links, g)
      /\ LinksOf(r) \cap Covered(queue) = {}
  BY <1>2, <1>4, <1>5
<1>7. /\ Append(queue, r) \in Seq(Seq(Nodes)) /\ Len(Append(queue, r)) = Len(queue) + 1
      /\ ToSet(Append(queue, r)) = ToSet(queue) \cup {r}
      /\ Covered(Append(queue, r)) = Covered(queue) \cup LinksOf(r)
      /\ Apart(Append(queue, r)) <=>
           Apart(queue) /\ IsInjective(Hops(r)) /\ LinksOf(r) \cap Covered(queue) = {}
  BY <1>1, <1>2, PathAdded
<1>8. Covered(Plans') = net' \ links' /\ Apart(Plans') /\ Len(Plans') = Len(Plans)
  BY <1>1, <1>3, <1>4, <1>5, <1>6, <1>7
<1>9. EachLinkOnOnePath'
  BY <1>8 DEF EachLinkOnOnePath, Covered, Apart
<1>10. \A q \in ToSet(Plans') : Len(q) > 1
  <2>1. Len(joined) > 1
    BY <1>1, <1>4
  <2>2. Len(r) > 1
    <3>1. Len(joined) \in Nat /\ Len(c) \in Nat
      BY <1>1
    <3>. QED BY <1>2, <2>1, <3>1
  <2>. QED BY <1>1, <1>3, <1>4, <1>7, <2>2
<1>11. PlanCount'
  <2>1. Odd(links') = Odd(links)
    <3>1. Odd(links \ LinksIn(links, g)) = Odd(links) \ g
      BY <1>1, SubgraphTaken
    <3>. QED BY <3>1
  <2>2. Odd(links)' = Odd(links) /\ Odd(net)' = Odd(net)
    BY <2>1 DEF Odd, Degree, Neighbours
  <2>3. links # {}
    BY <1>1, SubgraphFacts
  <2>4. Len(Plans) # 0
    <3>1. Len(queue) \in Nat
      BY <1>1
    <3>. QED BY <1>4, <3>1
  <2>5. PlanCount
    BY DEF PlanInv
  <2>. QED BY <1>8, <2>2, <2>3, <2>4, <2>5 DEF PlanCount
<1>. QED BY <1>3, <1>7, <1>9, <1>10, <1>11

(* The circuit or the trail is a path of its own.                          *)
LEMMA TrailCounts ==
  ASSUME PlanInv, joined = << >>, NEW g, NEW s \in g, NEW f \in g,
         g \in Subgraphs(links), Purpose(g, s, f),
         \A u \in g : u \in Odd(links) <=> s # f /\ u \in {s, f},
         net' = net, links' = links \ LinksIn(links, g), Len(Plans') = Len(Plans) + 1
  PROVE  PlanCount'
<1>1. PlanCount
  BY DEF PlanInv
<1>2. /\ net \subseteq AllLinks /\ Connected(net) /\ links \subseteq AllLinks
      /\ Len(Plans) \in Nat /\ Plans = queue
  BY PlanFacts DEF Plans
<1>3. Odd(links') = Odd(links) \ g
  BY <1>2, SubgraphTaken
<1>4. Odd(links)' = Odd(links') /\ Odd(net)' = Odd(net)
  BY DEF Odd, Degree, Neighbours
<1>5. CASE s = f
  <2>1. queue = << >> /\ Odd(net) = {}
    BY <1>5 DEF Purpose
  <2>2. Len(Plans) = 0
    BY <1>2, <2>1
  <2>3. links = net
    BY <1>1, <2>1, <2>2 DEF PlanCount
  <2>4. links' = {}
    <3>1. PICK h : Subgraphs(net) = {h}
      BY <1>2, ConnectedOne
    <3>2. \A l \in net : l \subseteq g
      BY <1>2, <2>3, <3>1, SubgraphOf
    <3>. QED BY <2>3, <3>2 DEF LinksIn
  <2>. QED BY <1>4, <2>1, <2>2, <2>4 DEF PlanCount
<1>6. CASE s # f
  <2>1. Odd(net) # {}
    BY <1>6 DEF Purpose
  <2>2. 2 * Len(Plans) + Cardinality(Odd(links)) = Cardinality(Odd(net))
    BY <1>1, <2>1 DEF PlanCount
  <2>3. Odd(links) \ g = Odd(links) \ {s, f} /\ s \in Odd(links) /\ f \in Odd(links)
    BY <1>6
  <2>4. Cardinality(Odd(links)) = Cardinality(Odd(links')) + 2
    <3>1. Cardinality(Odd(links)) = Cardinality(Odd(links) \ {s, f}) + 2
      BY <1>6, <2>3, OddFinite, TwoFewer
    <3>. QED BY <1>3, <2>3, <3>1
  <2>5. Cardinality(Odd(links')) \in Nat
    BY OddFinite
  <2>6. 2 * Len(Plans') + Cardinality(Odd(links')) = Cardinality(Odd(net))
    BY <1>2, <2>2, <2>4, <2>5
  <2>. QED BY <1>4, <2>1, <2>6 DEF PlanCount
<1>. QED BY <1>5, <1>6

LEMMA EulerReturnsKeeps == PlanInv /\ EulerReturns => PlanInv'
<1>. SUFFICES ASSUME PlanInv, EulerReturns PROVE PlanInv'
  OBVIOUS
<1>. DEFINE result == Reverse(trail)
<1>1. /\ phase = "euler" /\ stack = << >> /\ joined' = << >> /\ left' = {}
      /\ trail' = << >> /\ net' = net /\ degree' = degree /\ todo' = todo
      /\ stack' = stack
  BY DEF EulerReturns
<1>2. PICK g \in SUBSET Nodes : \E s, f, e \in g : EulerAt(g, s, f, e) /\ Purpose(g, s, f)
  BY <1>1 DEF PlanInv, EulerStands
<1>3. PICK s \in g, f \in g, e \in g : EulerAt(g, s, f, e) /\ Purpose(g, s, f)
  BY <1>2
<1>4. /\ g \in Subgraphs(links)
      /\ \A u \in g : u \in Odd(links) <=> s # f /\ u \in {s, f}
      /\ result \in Seq(Nodes) /\ Len(result) > 1
      /\ result[1] = s /\ result[Len(result)] = f
      /\ IsInjective(Hops(result)) /\ LinksOf(result) = LinksIn(links, g)
      /\ links' = links \ LinksIn(links, g)
      /\ queue' = Append(queue, IF joined = << >> THEN result
                                ELSE AddPath(joined, result))
      /\ phase' = IF todo = {} THEN "while" ELSE "for"
  BY <1>3, EulerResult
<1>. HIDE DEF result
<1>5. PlanTyped /\ PlanStands
  BY DEF PlanInv
<1>6. phase' # "raised" /\ phase' # "euler" /\ (phase' = "for" => Odd(net) # {})
  BY <1>3, <1>4 DEF Purpose
<1>7. LinksIn(links, g) \subseteq links /\ links \subseteq net
  BY PlanFacts DEF LinksIn
<1>8. /\ todo \subseteq Subgraphs(links \ LinksIn(links, g))
      /\ \A h \in todo : \A u \in h : degree[u] = Degree(links \ LinksIn(links, g), u)
  <2>. DEFINE ms == LinksIn(links, g)
              hs == todo
  <2>1. hs \subseteq todo /\ g \notin hs /\ ms \subseteq LinksIn(links, g)
    BY <1>3 DEF Purpose
  <2>. HIDE DEF hs, ms
  <2>2. hs \subseteq Subgraphs(links \ ms)
    BY <1>4, <2>1, ToCutKept
  <2>3. \A h \in hs : \A u \in h : degree[u] = Degree(links \ ms, u)
    BY <1>4, <2>1, ToCutKept, ZenonT(40)
  <2>. QED BY <2>2, <2>3 DEF hs, ms
<1>9. /\ queue' \in Seq(Seq(Nodes)) /\ \A q \in ToSet(Plans') : Len(q) > 1
      /\ EachLinkOnOnePath' /\ PlanCount'
  <2>1. CASE joined = << >>
    <3>1. queue' = Append(queue, result)
      BY <1>4, <2>1
    <3>2. /\ Len(Plans') = Len(Plans) + 1
          /\ queue' \in Seq(Seq(Nodes)) /\ \A q \in ToSet(Plans') : Len(q) > 1
          /\ EachLinkOnOnePath'
      BY <1>1, <1>4, <1>6, <1>7, <2>1, <3>1, PathTakes
    <3>3. PlanCount'
      BY <1>1, <1>3, <1>4, <2>1, <3>2, TrailCounts
    <3>. QED BY <3>2, <3>3
  <2>2. CASE joined # << >>
    <3>1. s = f /\ s \in ToSet(joined) /\ queue' = Append(queue, AddPath(joined, result))
      BY <1>3, <1>4, <2>2 DEF Purpose
    <3>2. \A u \in g : u \notin Odd(links)
      BY <1>4, <3>1
    <3>. QED BY <1>1, <1>4, <1>6, <2>2, <3>1, <3>2, CircuitJoined
  <2>. QED BY <2>1, <2>2
<1>10. PlanTyped'
  <2>1. joined' \in Seq(Nodes) /\ links' \subseteq net' /\ todo' \subseteq Subgraphs(links')
    <3>1. joined' \in Seq(Nodes)
      BY <1>1
    <3>2. links' \subseteq net'
      BY <1>1, <1>4, <1>7
    <3>3. todo' \subseteq Subgraphs(links')
      BY <1>1, <1>4, <1>8
    <3>. QED BY <3>1, <3>2, <3>3
  <2>2. phase' \in {"while", "for", "euler", "done"}
    BY <1>4
  <2>. QED BY <1>1, <1>5, <1>9, <2>1, <2>2 DEF PlanTyped
<1>11. Odd(net)' = Odd(net)
  BY <1>1 DEF Odd, Degree, Neighbours
<1>12. PlanStands' /\ EulerStands'
  BY <1>1, <1>4, <1>6, <1>8, <1>11 DEF PlanStands, EulerStands
<1>. QED BY <1>9, <1>10, <1>12 DEF PlanInv

LEMMA PlanStutters == PlanInv /\ UNCHANGED plan_vars => PlanInv'
<1>. SUFFICES ASSUME PlanInv, UNCHANGED plan_vars PROVE PlanInv'
  OBVIOUS
<1>. USE DEF plan_vars
<1>1. PlanTyped' /\ EachLinkOnOnePath' /\ PlanStands' /\ PlanCount'
  BY DEF PlanInv, PlanTyped, EachLinkOnOnePath, PlanStands, PlanCount, Plans, Odd
<1>2. EulerStands'
  <2>. SUFFICES ASSUME phase = "euler" PROVE EulerStands'
    BY DEF EulerStands
  <2>1. PICK g \in SUBSET Nodes :
          \E s, f, e \in g : EulerAt(g, s, f, e) /\ Purpose(g, s, f)
    BY DEF PlanInv, EulerStands
  <2>2. PICK s \in g, f \in g, e \in g : EulerAt(g, s, f, e) /\ Purpose(g, s, f)
    BY <2>1
  <2>3. Purpose(g, s, f)'
    BY <2>2, PurposeKept
  <2>4. EulerCalled(g, s, f)' /\ EulerEnds(s, f, e)' /\ EulerTyped(g, e)'
    BY <2>2 DEF EulerAt, EulerCalled, EulerEnds, EulerTyped, Odd
  <2>5. Noted(e)' = Noted(e) /\ Calls' = Calls /\ Top' = Top
    BY DEF Noted, Calls, Top
  <2>6. EulerTaken(g, e)' /\ EulerParity(e)' /\ EulerLoops(e)' /\ EulerSpans'
    BY <2>2, <2>5 DEF EulerAt, EulerTaken, EulerParity, EulerLoops, EulerSpans
  <2>7. EulerAt(g, s, f, e)'
    BY <2>4, <2>6 DEF EulerAt
  <2>. QED BY <2>2, <2>3, <2>7 DEF EulerStands
<1>. QED BY <1>1, <1>2 DEF PlanInv

(* PlanInv always holds: between the calls of euler(), inside it and after.  *)
THEOREM PlanInvariant == PlanSpec => []PlanInv
<1>1. PlanInv /\ [PlanNext]_plan_vars => PlanInv'
  BY FirstCircuitStep, JoinCircuitStep, StartCutsStep, CutStep, EndCutsStep,
     FinishStep, FollowKeeps, ReturnKeeps, EulerReturnsKeeps, PlanStutters
     DEF PlanNext, Done
<1>. QED BY <1>1, PlanStarts, PTL DEF PlanSpec

LEMMA SeqWider ==
  ASSUME NEW S, NEW T, S \subseteq T, NEW p \in Seq(S)
  PROVE  p \in Seq(T)
OBVIOUS

(* What PlanInv says of the runs' properties. *)
LEMMA PlanInvTypes == PlanInv => PlanTypeOK
<1>. SUFFICES ASSUME PlanInv PROVE PlanTypeOK
  OBVIOUS
<1>1. PlanTyped /\ PlanStands /\ EulerStands
  BY DEF PlanInv
<1>2. /\ net \subseteq AllLinks /\ links \subseteq net /\ links \subseteq AllLinks
      /\ Plans \in Seq(Seq(Nodes)) /\ \A p \in ToSet(Plans) : Len(p) > 1
  BY PlanFacts
<1>3. \A p \in ToSet(Plans) : p \in Seq(Nodes)
  BY <1>2 DEF ToSet
<1>4. todo \subseteq SUBSET Nodes
  BY <1>1, <1>2, SubgraphFacts DEF PlanTyped
<1>5. /\ left \subseteq links /\ trail \in Seq(Nodes)
      /\ stack \in Seq([node : Nodes, next : 0 .. 2])
  <2>1. CASE phase # "euler"
    BY <1>1, <2>1 DEF PlanStands
  <2>2. CASE phase = "euler"
    <3>1. PICK g \in SUBSET Nodes : \E e \in g : EulerTyped(g, e)
      BY <1>1, <2>2 DEF EulerStands, EulerAt
    <3>2. /\ left \subseteq LinksIn(links, g) /\ trail \in Seq(g)
          /\ stack \in Seq([node : g, next : 0 .. 2])
      BY <3>1 DEF EulerTyped
    <3>3. trail \in Seq(Nodes)
      BY <3>2
    <3>4. stack \in Seq([node : Nodes, next : 0 .. 2])
      <4>1. [node : g, next : 0 .. 2] \subseteq [node : Nodes, next : 0 .. 2]
        OBVIOUS
      <4>. QED BY <3>2, <4>1, SeqWider
    <3>. QED BY <3>2, <3>3, <3>4 DEF LinksIn
  <2>. QED BY <2>1, <2>2
<1>. QED BY <1>1, <1>2, <1>3, <1>4, <1>5 DEF PlanTypeOK, PlanTyped

LEMMA PlanInvTaken == PlanInv => LinksTakenOnce
<1>. SUFFICES ASSUME PlanInv PROVE LinksTakenOnce
  OBVIOUS
<1>1. EachLinkOnOnePath /\ EulerStands /\ links \subseteq AllLinks
  BY PlanFacts DEF PlanInv
<1>2. ASSUME phase = "euler", stack = << >>
      PROVE  /\ left = {} /\ IsInjective(Hops(trail))
             /\ LinksOf(trail) = LinksIn(links, Component(links, trail[1]))
  <2>1. PICK g \in SUBSET Nodes : \E s, f, e \in g : EulerAt(g, s, f, e)
    BY <1>1, <1>2 DEF EulerStands
  <2>2. PICK s \in g, f \in g, e \in g : EulerAt(g, s, f, e)
    BY <2>1
  <2>3. /\ left = {} /\ trail[1] = f /\ f \in g
        /\ IsInjective(Hops(trail)) /\ LinksOf(trail) = LinksIn(links, g)
    BY <1>1, <1>2, <2>2, EulerAll
  <2>4. g \in Subgraphs(links)
    BY <2>2 DEF EulerAt, EulerCalled
  <2>5. Component(links, f) = g
    BY <1>1, <2>3, <2>4, SubgraphFacts
  <2>. QED BY <2>3, <2>5
<1>3. EulerTakesAll
  BY <1>2 DEF EulerTakesAll
<1>. QED BY <1>1, <1>3 DEF LinksTakenOnce

LEMMA OddNone == Odd({}) = {} /\ Cardinality(Odd({})) = 0
<1>1. ASSUME NEW u \in Nodes PROVE u \notin Odd({})
  <2>1. Neighbours({}, u) = {}
    BY DEF Neighbours
  <2>2. Degree({}, u) = 0
    BY <2>1, FS_EmptySet DEF Degree
  <2>. QED BY <2>2 DEF Odd
<1>2. Odd({}) = {}
  BY <1>1 DEF Odd
<1>. QED BY <1>2, FS_EmptySet

LEMMA PlanInvFewest == PlanInv /\ phase = "done" => FewestPaths
<1>. SUFFICES ASSUME PlanInv, phase = "done" PROVE FewestPaths
  OBVIOUS
<1>1. PlanStands /\ PlanCount
  BY DEF PlanInv
<1>2. links = {} /\ joined = << >> /\ Plans = queue
  BY <1>1 DEF PlanStands, Plans
<1>3. net \subseteq AllLinks /\ Connected(net) /\ Len(Plans) \in Nat
  BY PlanFacts
<1>4. net # {}
  <2>1. PICK g : Subgraphs(net) = {g}
    BY <1>3, ConnectedOne
  <2>2. g \in Subgraphs(net)
    BY <2>1
  <2>. QED BY <1>3, <2>2, SubgraphFacts
<1>5. CASE Odd(net) = {}
  <2>1. Len(queue) = 1
    BY <1>1, <1>2, <1>4, <1>5 DEF PlanCount
  <2>. QED BY <1>5, <2>1 DEF FewestPaths, Odd
<1>6. CASE Odd(net) # {}
  <2>1. 2 * Len(queue) + Cardinality(Odd(links)) = Cardinality(Odd(net))
    BY <1>1, <1>2, <1>6 DEF PlanCount
  <2>2. 2 * Len(queue) = Cardinality(Odd(net)) /\ Len(queue) \in Nat
    BY <1>2, <1>3, <2>1, OddNone
  <2>3. Len(queue) = Cardinality(Odd(net)) \div 2
    BY <2>2
  <2>. QED BY <1>6, <2>3 DEF FewestPaths, Odd
<1>. QED BY <1>5, <1>6

(* What find_path holds is always of its type. *)
THEOREM PlanTypeCorrect == PlanSpec => []PlanTypeOK
BY PlanInvariant, PlanInvTypes, PTL

(* No link is probed twice, and no trail leaves one out, in any network.   *)
THEOREM LinksOnce == PlanSpec => []LinksTakenOnce
BY PlanInvariant, PlanInvTaken, PTL

(* find_path raises no exception: every link it removes is there, and every *)
(* circuit it joins touches a path.                                        *)
THEOREM NeverRaises == PlanSpec => [](phase # "raised")
<1>1. PlanInv => phase # "raised"
  BY DEF PlanInv, PlanTyped
<1>. QED BY <1>1, PlanInvariant, PTL

(* When it is done, every link is on a path, and there is one path, or half *)
(* as many as the network has odd nodes.                                   *)
THEOREM FewestWhenDone == PlanSpec => [](phase = "done" => links = {} /\ FewestPaths)
<1>1. PlanInv => (phase = "done" => links = {} /\ FewestPaths)
  BY PlanInvFewest DEF PlanInv, PlanStands
<1>. QED BY <1>1, PlanInvariant, PTL

LEMMA OneMore ==
  ASSUME NEW S, IsFiniteSet(S), NEW x
  PROVE  /\ IsFiniteSet(S \cup {x}) /\ Cardinality(S \cup {x}) \in Nat
         /\ Cardinality(S \cup {x}) <= Cardinality(S) + 1
<1>1. /\ IsFiniteSet(S \cup {x})
      /\ Cardinality(S \cup {x}) = IF x \in S THEN Cardinality(S) ELSE Cardinality(S) + 1
  BY FS_AddElement, Zenon
<1>2. Cardinality(S) \in Nat /\ Cardinality(S \cup {x}) \in Nat
  BY <1>1, FS_CardinalityType
<1>. QED BY <1>1, <1>2

(* No paths that share no link can be fewer: each makes two nodes odd at    *)
(* most.                                                                   *)
LEMMA OddEnds ==
  \A n \in Nat : \A ps \in Seq(Seq(Nodes)) :
    Len(ps) = n /\ Apart(ps) /\ Covered(ps) \subseteq AllLinks
      => Cardinality(Odd(Covered(ps))) <= 2 * n
<1>. DEFINE Good(n) == \A ps \in Seq(Seq(Nodes)) :
              Len(ps) = n /\ Apart(ps) /\ Covered(ps) \subseteq AllLinks
                => Cardinality(Odd(Covered(ps))) <= 2 * n
            T == {n \in Nat : Good(n)}
<1>1. 0 \in T
  <2>. SUFFICES ASSUME NEW ps \in Seq(Seq(Nodes)), Len(ps) = 0
                PROVE  Cardinality(Odd(Covered(ps))) <= 2 * 0
    OBVIOUS
  <2>1. Covered(ps) = {}
    <3>1. DOMAIN ps = {}
      OBVIOUS
    <3>. QED BY <3>1, CoveredBy
  <2>. QED BY <2>1, OddNone
<1>2. ASSUME NEW n \in Nat, n \in T PROVE n + 1 \in T
  <2>. SUFFICES ASSUME NEW ps \in Seq(Seq(Nodes)), Len(ps) = n + 1, Apart(ps),
                       Covered(ps) \subseteq AllLinks
                PROVE  Cardinality(Odd(Covered(ps))) <= 2 * (n + 1)
    OBVIOUS
  <2>. DEFINE q == Front(ps)
              p == ps[Len(ps)]
  <2>1. /\ q \in Seq(Seq(Nodes)) /\ Len(q) = n /\ p \in Seq(Nodes)
        /\ ps = Append(q, p)
    <3>1. ps # << >> /\ Len(ps) - 1 = n /\ Len(ps) \in DOMAIN ps
      OBVIOUS
    <3>. QED BY <3>1, FrontFacts
  <2>. HIDE DEF q, p
  <2>2. /\ Covered(ps) = Covered(q) \cup LinksOf(p)
        /\ Apart(q) /\ IsInjective(Hops(p)) /\ LinksOf(p) \cap Covered(q) = {}
    BY <2>1, PathAdded
  <2>3. Covered(q) \subseteq AllLinks /\ Covered(ps) \ LinksOf(p) = Covered(q)
    BY <2>2
  <2>4. Cardinality(Odd(Covered(q))) <= 2 * n
    BY <1>2, <2>1, <2>2, <2>3
  <2>5. /\ IsFiniteSet(Odd(Covered(q))) /\ Cardinality(Odd(Covered(q))) \in Nat
        /\ IsFiniteSet(Odd(Covered(ps))) /\ Cardinality(Odd(Covered(ps))) \in Nat
    BY OddFinite
  <2>6. CASE Len(p) <= 1
    <3>1. Covered(ps) = Covered(q)
      BY <2>1, <2>2, <2>6, HopsNone
    <3>. QED BY <2>4, <2>5, <3>1
  <2>7. CASE Len(p) > 1
    <3>1. \A x \in Nodes : x \in Odd(Covered(ps) \ LinksOf(p)) <=>
            ~ (x \in Odd(Covered(ps)) <=> ~ (x = p[1] <=> x = p[Len(p)]))
      BY <2>1, <2>2, <2>7, PathTaken
    <3>2. Odd(Covered(ps)) \subseteq (Odd(Covered(q)) \cup {p[1]}) \cup {p[Len(p)]}
      BY <2>3, <3>1 DEF Odd
    <3>3. /\ IsFiniteSet(Odd(Covered(q)) \cup {p[1]})
          /\ Cardinality(Odd(Covered(q)) \cup {p[1]}) <= Cardinality(Odd(Covered(q))) + 1
      BY <2>5, OneMore
    <3>4. /\ IsFiniteSet((Odd(Covered(q)) \cup {p[1]}) \cup {p[Len(p)]})
          /\ Cardinality((Odd(Covered(q)) \cup {p[1]}) \cup {p[Len(p)]})
               <= Cardinality(Odd(Covered(q)) \cup {p[1]}) + 1
      BY <3>3, OneMore
    <3>5. Cardinality(Odd(Covered(ps)))
            <= Cardinality((Odd(Covered(q)) \cup {p[1]}) \cup {p[Len(p)]})
      BY <3>2, <3>4, FS_Subset
    <3>6. /\ Cardinality(Odd(Covered(q)) \cup {p[1]}) \in Nat
          /\ Cardinality((Odd(Covered(q)) \cup {p[1]}) \cup {p[Len(p)]}) \in Nat
      BY <2>5, <3>3, OneMore
    <3>. QED BY <2>4, <2>5, <3>3, <3>4, <3>5, <3>6
  <2>8. Len(p) \in Nat
    BY <2>1
  <2>. QED BY <2>6, <2>7, <2>8
<1>3. Nat \subseteq T
  <2>. HIDE DEF T
  <2>. QED BY <1>1, <1>2, SetInduction
<1>. QED BY <1>3

(* "With a minimum path number" (INTPATH_README.md): no paths of the network *)
(* that go along each of its links once are fewer than those found.        *)
Minimal ==
  /\ Covered(queue) = net /\ Apart(queue)
  /\ \A ps \in Seq(Seq(Nodes)) :
       Covered(ps) = net /\ Apart(ps) => Len(queue) <= Len(ps)

THEOREM MinimalWhenDone == PlanSpec => [](phase = "done" => Minimal)
<1>1. ASSUME PlanInv, phase = "done" PROVE Minimal
  <2>1. links = {} /\ joined = << >> /\ Plans = queue /\ FewestPaths
    BY <1>1, PlanInvFewest DEF PlanInv, PlanStands, Plans
  <2>2. /\ net \subseteq AllLinks /\ Connected(net)
        /\ Covered(queue) = net /\ Apart(queue) /\ queue \in Seq(Seq(Nodes))
    BY <1>1, <2>1, PlanFacts
  <2>3. Len(queue) = IF Odd(net) = {} THEN 1 ELSE Cardinality(Odd(net)) \div 2
    BY <2>1 DEF FewestPaths, Odd
  <2>4. ASSUME NEW ps \in Seq(Seq(Nodes)), Covered(ps) = net, Apart(ps)
        PROVE  Len(queue) <= Len(ps)
    <3>1. Len(ps) \in Nat /\ Cardinality(Odd(net)) \in Nat
      BY OddFinite
    <3>2. Cardinality(Odd(net)) <= 2 * Len(ps)
      BY <2>2, <2>4, <3>1, OddEnds
    <3>3. Len(ps) # 0
      <4>1. net # {}
        BY <2>2, ConnectedOne, SubgraphFacts
      <4>2. DOMAIN ps # {}
        BY <2>4, <4>1, CoveredBy
      <4>. QED BY <4>2
    <3>4. CASE Odd(net) = {}
      BY <2>3, <3>1, <3>3, <3>4
    <3>5. CASE Odd(net) # {}
      BY <2>3, <3>1, <3>2, <3>5
    <3>. QED BY <3>4, <3>5
  <2>. QED BY <2>2, <2>4 DEF Minimal
<1>. QED BY <1>1, PlanInvariant, PTL
=============================================================================
