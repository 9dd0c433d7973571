-------------------------------- MODULE MCLots -------------------------------
(***************************************************************************)
(* Orders and what their fills tell the exit job, for TLC: the price falls  *)
(* by half and recovers.  The two share no variable, so a property of one   *)
(* cannot tell when the other moves; each moves while the other stands at   *)
(* its beginning.                                                           *)
(***************************************************************************)
EXTENDS MCOrderExecution, Lots

FallAndRise == <<20, 10, 20>>

OrdersInit == Init /\ LotsInit

\* A history of fills ends at its bounds; the orders may not.
OrdersNext ==
  \/ LotsInit /\ external = 0 /\ Next /\ UNCHANGED lotVars
  \/ Init /\ LotsNext /\ UNCHANGED vars
  \/ Init /\ ~ ENABLED LotsNext /\ UNCHANGED <<vars, lotVars>>

OrdersSpec == OrdersInit /\ [][OrdersNext]_<<vars, lotVars>>

=============================================================================
