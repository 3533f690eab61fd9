-------------------------- MODULE MCAuthorization --------------------------
(* Authorization for TLC: an administrator, a session of a unit whose plan *)
(* is blocked, a token without version, and three routes.                  *)
EXTENDS Authorization

Session == [proper |-> TRUE, versioned |-> TRUE, user |-> "u1", establishment |-> "e2",
            permissions |-> {<<"agenda", "*">>}, role |-> "owner",
            plan |-> "blocked", modules |-> {"agenda"}]

ThreeClaims ==
    [t1 |-> [Session EXCEPT !.establishment = None, !.role = None, !.plan = "none",
                            !.permissions = {<<"platform", "*">>}, !.modules = None],
     t2 |-> Session,
     t3 |-> [Session EXCEPT !.versioned = FALSE]]

ThreeRoutes ==
    {[establishment |-> "e1", module |-> "agenda", roles |-> {},
      permissions |-> {<<"agenda", "read">>}],
     [establishment |-> "e2", module |-> "stock", roles |-> {}, permissions |-> {}],
     [establishment |-> None, module |-> "agenda", roles |-> {"owner"},
      permissions |-> {<<"agenda", "read">>}]}
=============================================================================
