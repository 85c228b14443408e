---------------------------- MODULE KeyRegistry ----------------------------
(***************************************************************************)
(* What the relay promises about device keys, whatever crashes, fails or   *)
(* comes late: while it runs, a device's key changes at most once, by a    *)
(* registration with the device's token; the map reaches the disk as a     *)
(* whole and only in the state it has in memory; a device gets its 200     *)
(* with the map that holds its key on disk; and a relay that starts knows  *)
(* what is on disk, no less and nothing else, and takes every token again. *)
(***************************************************************************)
CONSTANTS Devices, Keys, NoKey

VARIABLES
    relay,      \* "up" or "down"
    open,       \* devices that may still register with this run of the relay
    known,      \* the key of each device in memory
    stored,     \* the key of each device on disk
    acked       \* devices that were answered with 200

registryVars == <<relay, open, known, stored, acked>>

NoKeys == [d \in Devices |-> NoKey]

RegistryInit ==
    /\ relay = "up"
    /\ open = Devices
    /\ known = NoKeys
    /\ stored = NoKeys
    /\ acked = {}

Enrol(d, k) ==
    /\ relay = "up" /\ d \in open
    /\ open' = open \ {d}
    /\ known' = [known EXCEPT ![d] = k]
    /\ UNCHANGED <<relay, stored, acked>>

\* For a device that registered since the relay started.
Persist(d) ==
    /\ relay = "up" /\ d \notin open
    /\ stored' = known
    /\ acked' = acked \cup {d}
    /\ UNCHANGED <<relay, open, known>>

Crash ==
    /\ relay = "up"
    /\ relay' = "down"
    /\ open' = {}
    /\ known' = NoKeys
    /\ UNCHANGED <<stored, acked>>

Start ==
    /\ relay = "down"
    /\ relay' = "up"
    /\ open' = Devices
    /\ known' = stored
    /\ UNCHANGED <<stored, acked>>

RegistryNext ==
    \/ \E d \in Devices : (\E k \in Keys : Enrol(d, k)) \/ Persist(d)
    \/ Crash
    \/ Start

RegistrySpec == RegistryInit /\ [][RegistryNext]_registryVars
=============================================================================
