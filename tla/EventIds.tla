------------------------------ MODULE EventIds ------------------------------
(***************************************************************************)
(* The names that clients and servers share: an Event says which unit of   *)
(* which group was visited by giving their ids (event.go).                 *)
(***************************************************************************)
CONSTANTS
  GroupIds,   \* values of Event.GroupID
  UnitIds,    \* values of Event.UnitId
  None        \* nil, a key that is absent

ASSUME IdAssumption == None \notin GroupIds \cup UnitIds
=============================================================================
