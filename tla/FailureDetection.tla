-------------------------- MODULE FailureDetection --------------------------
(***************************************************************************)
(* How INTPath finds gray failures: the script of app.py, the senders of   *)
(* the hosts (sendint.py), which send a probe along each path every epoch, *)
(* the receivers (receive.py, dint_receive.py), which renew a Redis key    *)
(* for the path and one for each fast port of it, and detector.py, which   *)
(* prints the keys that expire.                                            *)
(*                                                                         *)
(* Time is a number of ticks.  What the code does after a sleep happens    *)
(* when the sleep is over or up to a named lag later, in any order.        *)
(***************************************************************************)
EXTENDS Integers, FiniteSets

CONSTANTS
  Path,           \* the planned paths, each with a thread at its sender
  Key,            \* the Redis keys: one for each path, one for each port
  PortKey,        \* those of the ports
  Renews,         \* Renews[p]: the keys a probe of p renews on arrival
  Epoch,          \* epoch_len
  Aging,          \* aging_time
  SendTime,       \* sendTimes: how long a thread sends
  WaitTables, WaitTraffic, WaitDetector, WaitEnd,  \* the sleeps of app.py
  Jitter,         \* how late a thread may wake up
  Transit,        \* how long a probe may be on its way
  MaxLoss,        \* probes of a path lost in a row
  StartLag,       \* how long detector.py takes to subscribe
  ExpiryLag       \* how late Redis may notice that a key is over

ASSUME DetectionPaths == PortKey \subseteq Key /\ Renews \in [Path -> SUBSET Key]
ASSUME DetectionTimes ==
  /\ {Epoch, Aging, SendTime} \subseteq Nat \ {0}
  /\ {WaitTables, WaitTraffic, WaitDetector, WaitEnd} \subseteq Nat
  /\ {Jitter, Transit, MaxLoss, StartLag, ExpiryLag} \subseteq Nat

(* The longest time between two probes of a thread. *)
Gap == Epoch + Jitter

(* config.json makes a key outlast the probes that may be missing.         *)
ASSUME AgingOutlastsLosses == (MaxLoss + 1) * Gap + Transit < Aging

(* app.py simulates the failure when every path has renewed its keys, while *)
(* the threads still send, and with the detector there before a key ends.  *)
ASSUME Schedule ==
  /\ 2 * Jitter + MaxLoss * Gap + Transit < WaitTraffic + WaitDetector
  /\ WaitTraffic + WaitDetector < SendTime
  /\ StartLag + (MaxLoss + 1) * Gap + Transit < WaitDetector + Aging

VARIABLES
  now,
  script,     \* where app.py stands
  wake,       \* when its sleep is over
  sender,     \* sender[p]: "idle", "told", "active" or "stopped"
  startTime,  \* startTime[p]: when the thread of p began
  nextSend,   \* nextSend[p]: when its sleep is over
  flight,     \* flight[p]: when the probes that are on their way were sent
  lost,       \* lost[p]: probes lost since one arrived
  expiry,     \* expiry[k]: when k is over, or Never if there is no such key
  detector,   \* "off", "starting" or "subscribed"
  openedAt,   \* when app.py started it, or Never
  inbox,      \* expired events the detector has not printed
  reported,   \* the keys it has printed
  broken,     \* the path whose link is down, if any
  slow,       \* the key of the slow port, if any
  failedAt,   \* when app.py simulated the failure, or Never
  lastSent    \* history: lastSent[p]: when the last probe that arrived was sent

Never == -1

thread == <<sender, startTime, nextSend>>
probes == <<flight, lost, lastSent>>
failure == <<broken, slow, failedAt>>
watch == <<detector, openedAt, inbox, reported>>
vars == <<now, script, wake, thread, probes, expiry, watch, failure>>
-----------------------------------------------------------------------------
Init ==
  /\ now = 0
  /\ script = "update" /\ wake = WaitTables
  /\ sender = [p \in Path |-> "idle"]
  /\ startTime = [p \in Path |-> Never] /\ nextSend = [p \in Path |-> Never]
  /\ flight = [p \in Path |-> {}] /\ lost = [p \in Path |-> 0]
  /\ lastSent = [p \in Path |-> Never]
  /\ expiry = [k \in Key |-> Never]
  /\ detector = "off" /\ openedAt = Never /\ inbox = {} /\ reported = {}
  /\ broken = {} /\ slow = {} /\ failedAt = Never

(* update: each host is told its paths, and starts a thread for each.      *)
TraversePaths ==
  /\ script = "update" /\ now = wake
  /\ script' = "traffic" /\ wake' = now + WaitTraffic
  /\ sender' = [p \in Path |-> "told"]
  /\ nextSend' = [p \in Path |-> now]
  /\ UNCHANGED <<now, startTime, probes, expiry, watch, failure>>

StartThread(p) ==
  /\ sender[p] = "told"
  /\ sender' = [sender EXCEPT ![p] = "active"]
  /\ startTime' = [startTime EXCEPT ![p] = now]
  /\ nextSend' = [nextSend EXCEPT ![p] = now]
  /\ UNCHANGED <<now, script, wake, probes, expiry, watch, failure>>

(* Mutant: a thread that sleeps twice between two probes. *)
MutSlow_Send(p) ==
  /\ sender[p] = "active" /\ now >= nextSend[p]
  /\ now - startTime[p] < SendTime
  /\ flight' = [flight EXCEPT ![p] = @ \cup {now}]
  /\ nextSend' = [nextSend EXCEPT ![p] = now + 2 * Epoch]
  /\ UNCHANGED <<now, script, wake, sender, startTime, lost, lastSent, expiry,
                 watch, failure>>

(* One turn of the loop of sendPacketByTime. *)
Send(p) ==
  /\ sender[p] = "active" /\ now >= nextSend[p]
  /\ now - startTime[p] < SendTime
  /\ flight' = [flight EXCEPT ![p] = @ \cup {now}]
  /\ nextSend' = [nextSend EXCEPT ![p] = now + Epoch]
  /\ UNCHANGED <<now, script, wake, sender, startTime, lost, lastSent, expiry,
                 watch, failure>>

StopSending(p) ==
  /\ sender[p] = "active" /\ now >= nextSend[p]
  /\ now - startTime[p] >= SendTime
  /\ sender' = [sender EXCEPT ![p] = "stopped"]
  /\ UNCHANGED <<now, script, wake, startTime, nextSend, probes, expiry, watch,
                 failure>>

(* Probes of a path keep their order, so the first on its way is the next  *)
(* to arrive or to be missed. *)
First(p, t) == t \in flight[p] /\ \A u \in flight[p] : t <= u

Lose(p) ==
  \E t \in flight[p] :
    /\ First(p, t)
    /\ p \in broken \/ lost[p] < MaxLoss
    /\ flight' = [flight EXCEPT ![p] = @ \ {t}]
    /\ lost' = [lost EXCEPT ![p] = IF p \in broken THEN @ ELSE @ + 1]
    /\ UNCHANGED <<now, script, wake, thread, lastSent, expiry, watch, failure>>

(* Mutant: a receiver that does not look at the latency of a port. *)
MutSlow_Renewals(p, t) == {Renews[p]}

(* The keys a probe may renew: a port that has become slow since the probe *)
(* was sent may have been fast when it came by. *)
Renewals(p, t) ==
  {ks \in SUBSET Renews[p] : /\ Renews[p] \ slow \subseteq ks
                             /\ t > failedAt => ks \cap slow = {}}

Over(k) == expiry[k] # Never /\ expiry[k] <= now

(* Redis publishes what expires to those who have subscribed, and to nobody *)
(* later; SET on a key that is over makes it expire first. *)
Publish(ks) ==
  inbox' = IF detector = "subscribed" THEN inbox \cup ks ELSE inbox

(* The receiver sets the keys, then their time to live (r.set, r.pexpire). *)
Receive(p) ==
  \E t \in flight[p] : \E ks \in Renewals(p, t) :
    /\ First(p, t)
    /\ p \notin broken \/ t <= failedAt
    /\ flight' = [flight EXCEPT ![p] = @ \ {t}]
    /\ lost' = [lost EXCEPT ![p] = 0]
    /\ lastSent' = [lastSent EXCEPT ![p] = t]
    /\ expiry' = [k \in Key |-> IF k \in ks THEN now + Aging ELSE expiry[k]]
    /\ Publish({k \in ks : Over(k)})
    /\ UNCHANGED <<now, script, wake, thread, detector, openedAt, reported, failure>>

Expire(k) ==
  /\ Over(k)
  /\ expiry' = [expiry EXCEPT ![k] = Never]
  /\ Publish({k})
  /\ UNCHANGED <<now, script, wake, thread, probes, detector, openedAt, reported, failure>>

OpenDetector ==
  /\ script = "traffic" /\ now = wake
  /\ script' = "detector" /\ wake' = now + WaitDetector
  /\ detector' = "starting" /\ openedAt' = now
  /\ UNCHANGED <<now, thread, probes, expiry, inbox, reported, failure>>

Subscribe ==
  /\ detector = "starting"
  /\ detector' = "subscribed"
  /\ UNCHANGED <<now, script, wake, thread, probes, expiry, openedAt, inbox, reported, failure>>

PrintKey(k) ==
  /\ k \in inbox
  /\ inbox' = inbox \ {k} /\ reported' = reported \cup {k}
  /\ UNCHANGED <<now, script, wake, thread, probes, expiry, detector, openedAt, failure>>

(* app.py takes one link down, which is on one path only, or makes one port *)
(* slow.                                                                    *)
SimulateFailure ==
  /\ script = "detector" /\ now = wake
  /\ script' = "failed" /\ wake' = now + WaitEnd
  /\ failedAt' = now
  /\ \/ \E p \in Path : broken' = {p} /\ UNCHANGED slow
     \/ \E k \in PortKey : slow' = {k} /\ UNCHANGED broken
  /\ UNCHANGED <<now, thread, probes, expiry, watch>>

End ==
  /\ script = "failed" /\ now = wake
  /\ script' = "end"
  /\ UNCHANGED <<now, wake, thread, probes, expiry, watch, failure>>

(* Time passes unless something can wait no longer. *)
Tick ==
  /\ script # "end" /\ now < wake
  /\ \A p \in Path :
       /\ sender[p] \in {"told", "active"} => now < nextSend[p] + Jitter
       /\ \A t \in flight[p] : now < t + Transit
  /\ \A k \in Key : Over(k) => now < expiry[k] + ExpiryLag
  /\ detector = "starting" => now < openedAt + StartLag
  /\ inbox = {}
  /\ now' = now + 1
  /\ UNCHANGED <<script, wake, thread, probes, expiry, watch, failure>>

(* cleanMn: the experiment is over. *)
Ended == script = "end" /\ UNCHANGED vars

Next ==
  \/ TraversePaths \/ OpenDetector \/ Subscribe \/ SimulateFailure \/ End \/ Tick
  \/ Ended
  \/ \E p \in Path :
       StartThread(p) \/ Send(p) \/ StopSending(p) \/ Lose(p) \/ Receive(p)
  \/ \E k \in Key : Expire(k) \/ PrintKey(k)

Spec == Init /\ [][Next]_vars
-----------------------------------------------------------------------------
Renewers(k) == {p \in Path : k \in Renews[p]}
Time == Nat \cup {Never}

TypeOK ==
  /\ now \in Nat /\ wake \in Nat
  /\ script \in {"update", "traffic", "detector", "failed", "end"}
  /\ sender \in [Path -> {"idle", "told", "active", "stopped"}]
  /\ startTime \in [Path -> Time] /\ nextSend \in [Path -> Time]
  /\ flight \in [Path -> SUBSET Nat] /\ lost \in [Path -> 0 .. MaxLoss]
  /\ lastSent \in [Path -> Time] /\ expiry \in [Key -> Time]
  /\ detector \in {"off", "starting", "subscribed"} /\ openedAt \in Time
  /\ inbox \subseteq Key /\ reported \subseteq Key
  /\ broken \subseteq Path /\ slow \subseteq PortKey /\ failedAt \in Time

(* Why a key may come to an end: its port is slow, or no path that has     *)
(* renewed it can do so any more. *)
Excused(k) ==
  \/ k \in slow
  \/ \A p \in Renewers(k) :
       lastSent[p] # Never => p \in broken \/ sender[p] = "stopped"

(* The detector is told of no key that a path in order renews: not when    *)
(* probes are lost, sent late or slow to arrive (receive.py:49-60).        *)
NoFalseAlarm == [][\A k \in inbox' \ inbox : Excused(k)]_vars

(* What the failure takes away is printed in time, although events go only *)
(* to a detector that is there (detector.py:6, app.py:502-508).            *)
Affected(k) ==
  Renewers(k) # {} /\ (k \in slow \/ Renewers(k) \subseteq broken)
FailureReported ==
  \A k \in Key :
    failedAt # Never /\ Affected(k)
      /\ now > failedAt + Transit + Aging + ExpiryLag => k \in reported
=============================================================================
