-------------------------------- MODULE Authz --------------------------------
(***************************************************************************)
(* The authorization matrix: the permission codes of services/authz.py and *)
(* which application role holds which of them, as migration 0005 seeds it. *)
(* Nothing at run time changes the matrix.                                 *)
(***************************************************************************)

Permission == {"roles:read", "people:read", "people:create", "events:read",
               "events:create", "assignments:read", "assignments:create"}

RoleCode == {"admin", "manager", "operator"}

(* operator runs the day-to-day work but does not manage the roster.       *)
Holds == [r \in RoleCode |->
            IF r = "operator" THEN Permission \ {"people:create"}
                              ELSE Permission]

=============================================================================
