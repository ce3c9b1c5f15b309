-------------------------------- MODULE Slots --------------------------------
(***************************************************************************)
(* The in-memory counters that bound concurrent upstream requests          *)
(* (Server.global and Server.active), shared by the worker's dispatches    *)
(* and the HTTP handlers, and changed only under Server.mu.                *)
(***************************************************************************)
EXTENDS Integers

CONSTANTS DeviceLimit,    \* 4 per device
          GlobalLimit     \* 32 in total

VARIABLES global, active

slotVars == <<global, active>>

ASSUME SlotAssumption == DeviceLimit \in Nat \ {0} /\ GlobalLimit \in Nat \ {0}

SlotsTypeOK(Device) ==
    /\ global \in Int
    /\ active \in [Device -> Int]

SlotsInit(Device) ==
    /\ global = 0
    /\ active = [d \in Device |-> 0]

\* A test that lets one more than the global limit in.
HasSlotOffByOne(d) == global <= GlobalLimit /\ active[d] < DeviceLimit

HasSlot(d) == global < GlobalLimit /\ active[d] < DeviceLimit

acquire(d) ==
    /\ HasSlot(d)
    /\ global' = global + 1
    /\ active' = [active EXCEPT ![d] = @ + 1]

release(d) ==
    /\ global' = global - 1
    /\ active' = [active EXCEPT ![d] = @ - 1]

\* The counters live in the process: they start from zero with it.
SlotsReset ==
    /\ global' = 0
    /\ active' = [d \in DOMAIN active |-> 0]
=============================================================================
