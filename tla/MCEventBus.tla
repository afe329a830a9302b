----------------------------- MODULE MCEventBus -----------------------------
(* EventBus for TLC: one event type. *)
EXTENDS EventBus

MCTypeOf == [e \in Event |-> CHOOSE t \in EventType : TRUE]
=============================================================================
