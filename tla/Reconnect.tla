----------------------------- MODULE Reconnect ------------------------------
(***************************************************************************)
(* The timing of an agent's way back to the relay: the reconnect loop of   *)
(* runAgentRuntime with its backoff, and the relay's check of the          *)
(* timestamp in the auth message, which compares the clocks of two         *)
(* machines.  SessionRegistry and Provisioning leave both open.            *)
(*                                                                         *)
(* Time passes in ticks.  wait counts down to the end of a Sleep, or to    *)
(* the latest end of what the agent is doing; calm counts up.              *)
(***************************************************************************)
EXTENDS Integers

CONSTANTS
    Second,     \* ticks of a second
    MaxBackoff, \* 30 s, the longest pause after a failed dial
    Window,     \* 2 min, how old or early a timestamp may be
    SyncTime,   \* longest syncProvisionedDevice: two requests of 10 s
    NoticeTime, \* longest handleConnection goes on after its connection ended
    DialTime,   \* longest tls.Dial (it has no timeout: the system's)
    Transit,    \* longest time from time.Now() in the agent to the relay's check
    Skews       \* how far the agent's clock may be ahead of the relay's

ASSUME TimingAssumption ==
    /\ Second \in Nat \ {0} /\ Window \in Nat
    /\ SyncTime \in Nat /\ DialTime \in Nat /\ Transit \in Nat /\ NoticeTime \in Nat
    /\ MaxBackoff \in Nat /\ Second <= MaxBackoff
    /\ Skews \subseteq Int

VARIABLES
    relay,      \* "up" or "down"
    agent,      \* where runAgentRuntime's loop is
    wait,
    backoff,    \* the pause after the next failed dial
    skew,       \* the agent's clock minus the relay's
    frac,       \* ticks into the current second of the agent's clock
    lag,        \* while an auth message is on its way: the relay's clock minus its timestamp
    stamped,    \* (history) skew when that message was made
    outage,     \* (history) whether the relay was down at some time of the dial under way
    calm        \* (history) ticks since the last trouble: the relay down, the agent's
                \* clock wrong, a connection lost, a dial failed with the relay up throughout

vars == <<relay, agent, wait, backoff, skew, frac, lag, stamped, outage, calm>>

(***************************************************************************)
(* Which clocks the window tolerates whatever happens, and which it never  *)
(* does.  Truncation to seconds and the way to the relay both make a       *)
(* timestamp older, so a clock may be ahead by more than it may be behind. *)
(***************************************************************************)
Tolerable(s) == Transit + Second - 1 - Window <= s /\ s <= Window
Hopeless(s)  == s < -Window \/ s > Window + Transit + Second - 1

Larger(a, b) == IF a > b THEN a ELSE b

(***************************************************************************)
(* The longest way back.  Trouble ends right after the agent began to dial *)
(* (that dial may still fail, late, and the pause be the longest) or while *)
(* a message made with a wrong clock is under way (it is refused, and the  *)
(* agent notices late); then one sync, one dial, one auth message.         *)
(***************************************************************************)
LostTime == Larger(DialTime + MaxBackoff, Transit + NoticeTime + 2 * Second)
Bound    == LostTime + SyncTime + DialTime + Transit

TypeOK ==
    /\ relay \in {"up", "down"}
    /\ agent \in {"sync", "dial", "auth", "serving", "cut", "pause"}
    /\ wait \in Nat
    /\ backoff \in Second..MaxBackoff
    /\ skew \in Skews
    /\ frac \in 0..(Second - 1)
    /\ lag \in Int
    /\ stamped \in Int
    /\ outage \in BOOLEAN
    /\ calm \in 0..(Bound + 1)

Init ==
    /\ relay = "down"
    /\ agent = "sync"
    /\ wait = SyncTime
    /\ backoff = Second
    /\ skew \in Skews
    /\ frac \in 0..(Second - 1)
    /\ lag = 0
    /\ stamped = 0
    /\ outage = FALSE
    /\ calm = 0

-----------------------------------------------------------------------------
(***************************************************************************)
(* runAgentRuntime and handleConnection.                                   *)
(***************************************************************************)
Pause(ticks) == agent' = "pause" /\ wait' = ticks

\* syncProvisionedDevice returns, with or without an error.
SyncEnds ==
    /\ agent = "sync"
    /\ agent' = "dial" /\ wait' = DialTime
    /\ outage' = (relay = "down")
    /\ UNCHANGED <<relay, backoff, skew, frac, lag, stamped, calm>>

\* Mutants: the bound is checked before doubling; there is none.
DialFailsCappedEarly ==
    /\ agent = "dial"
    /\ Pause(backoff)
    /\ calm' = IF outage THEN calm ELSE 0
    /\ backoff' = IF backoff < MaxBackoff THEN 2 * backoff ELSE backoff
    /\ UNCHANGED <<relay, skew, frac, lag, stamped, outage>>

DialFailsUncapped ==
    /\ agent = "dial"
    /\ Pause(backoff)
    /\ calm' = IF outage THEN calm ELSE 0
    /\ backoff' = IF backoff <= Bound THEN 2 * backoff ELSE backoff
    /\ UNCHANGED <<relay, skew, frac, lag, stamped, outage>>

\* Any error of tls.Dial, also a late one of a dial that began while the relay
\* was away, or one of a relay that was there: Sleep(backoff), doubled up to
\* its bound.
DialFails ==
    /\ agent = "dial"
    /\ Pause(backoff)
    /\ calm' = IF outage THEN calm ELSE 0
    /\ backoff' = IF 2 * backoff > MaxBackoff THEN MaxBackoff ELSE 2 * backoff
    /\ UNCHANGED <<relay, skew, frac, lag, stamped, outage>>

\* The connection is up and the auth message on its way; its timestamp is
\* the agent's clock in whole seconds.
DialSucceeds ==
    /\ agent = "dial" /\ relay = "up"
    /\ agent' = "auth" /\ wait' = Transit
    /\ backoff' = Second
    /\ lag' = frac - skew
    /\ stamped' = skew
    /\ UNCHANGED <<relay, skew, frac, outage, calm>>

\* The connection is gone.  handleConnection returns only when it reads or
\* writes again: after the command it runs, the EOF's way here, or the
\* keep-alive's verdict if the relay vanished without one.
ConnectionEnds ==
    /\ agent' = "cut" /\ wait' = NoticeTime
    /\ UNCHANGED <<backoff, skew, frac, lag, stamped, outage>>

\* Close, Sleep(2 s).
HandleConnectionReturns ==
    /\ agent = "cut"
    /\ Pause(2 * Second)
    /\ UNCHANGED <<relay, backoff, skew, frac, lag, stamped, outage, calm>>

WakeUp ==
    /\ agent = "pause" /\ wait = 0
    /\ agent' = "sync" /\ wait' = SyncTime
    /\ UNCHANGED <<relay, backoff, skew, frac, lag, stamped, outage, calm>>

-----------------------------------------------------------------------------
(***************************************************************************)
(* handleAgentConn.                                                        *)
(***************************************************************************)

\* Mutant: a timestamp of the future is refused.
FreshOnlyPast == 0 <= lag /\ lag <= Window

\* time.Since(ts) > 2*time.Minute || time.Until(ts) > 2*time.Minute
Fresh == -Window <= lag /\ lag <= Window

Accept ==
    /\ agent = "auth" /\ relay = "up"
    /\ Fresh
    /\ agent' = "serving" /\ wait' = 0
    /\ UNCHANGED <<relay, backoff, skew, frac, lag, stamped, outage, calm>>

\* "auth timestamp out of range"
Refuse ==
    /\ agent = "auth" /\ relay = "up"
    /\ ~Fresh
    /\ ConnectionEnds
    /\ UNCHANGED <<relay, calm>>

-----------------------------------------------------------------------------
(***************************************************************************)
(* The world around them.                                                  *)
(***************************************************************************)
Lose ==
    /\ agent \in {"auth", "serving"}
    /\ ConnectionEnds
    /\ calm' = 0
    /\ UNCHANGED relay

\* The relay process ends, its connections with it.
RelayEnds ==
    /\ relay = "up"
    /\ relay' = "down"
    /\ calm' = 0
    /\ IF agent \in {"auth", "serving"}
       THEN ConnectionEnds
       ELSE /\ outage' = (outage \/ agent = "dial")
            /\ UNCHANGED <<agent, wait, backoff, skew, frac, lag, stamped>>

RelayStarts ==
    /\ relay = "down"
    /\ relay' = "up"
    /\ calm' = 0
    /\ UNCHANGED <<agent, wait, backoff, skew, frac, lag, stamped, outage>>

\* The agent's clock is set, or has drifted.
SetClock ==
    /\ skew' \in Skews \ {skew}
    /\ frac' \in 0..(Second - 1)
    /\ calm' = 0
    /\ UNCHANGED <<relay, agent, wait, backoff, lag, stamped, outage>>

\* Time waits for nobody, but everybody is on time.
Tick ==
    /\ agent = "serving" \/ wait > 0
    /\ wait' = IF wait > 0 THEN wait - 1 ELSE 0
    /\ frac' = IF frac + 1 = Second THEN 0 ELSE frac + 1
    /\ lag' = IF agent = "auth" THEN lag + 1 ELSE lag
    /\ calm' = IF relay = "down" \/ ~Tolerable(skew) THEN 0
               ELSE IF calm <= Bound THEN calm + 1 ELSE calm
    /\ UNCHANGED <<relay, agent, backoff, skew, stamped, outage>>

Next ==
    \/ SyncEnds \/ DialFails \/ DialSucceeds \/ HandleConnectionReturns \/ WakeUp
    \/ Accept \/ Refuse
    \/ Lose \/ RelayEnds \/ RelayStarts \/ SetClock
    \/ Tick

Spec == Init /\ [][Next]_vars

-----------------------------------------------------------------------------
(***************************************************************************)
(* However long the relay was away, however often the dial failed and      *)
(* however wrong the agent's clock was: when the relay has run, the clock  *)
(* been right and no connection or dial to the running relay failed for    *)
(* longer than Bound, the agent is served.  A dial that began before may   *)
(* still fail late, and a command of the old connection still run.  (The   *)
(* backoff is bounded and reset, a refused agent tries again after 2 s.)   *)
(***************************************************************************)
BackWithinBound == calm > Bound => agent = "serving"

(***************************************************************************)
(* The timestamp check decides the same way wherever in its second the     *)
(* agent signs and however long the message takes: an agent whose clock is *)
(* tolerable is never refused for its timestamp, one whose clock is        *)
(* hopeless always is.                                                     *)
(***************************************************************************)
WindowDecides ==
    agent = "auth" => (Tolerable(stamped) => Fresh) /\ (Hopeless(stamped) => ~Fresh)
=============================================================================
