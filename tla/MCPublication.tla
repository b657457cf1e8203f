--------------------------- MODULE MCPublication ---------------------------
(* Three commits, of which the second adds an override of the endpoint and *)
(* drops the scheduled jobs; two syncs on one checkout or each on its own. *)
EXTENDS Publication, TLC

CONSTANTS p, w

MCSyncs == {p, w}
MCHosts == {1, 2}
MCRefs == 1..3

F == {<<"fleet", "desired">>}
MCContents == [r \in MCRefs |->
  CASE r = 1 -> F \cup {<<"fleet", "crons">>}
    [] r = 2 -> F \cup {<<"endpoint", "desired">>}
    [] r = 3 -> F \cup {<<"fleet", "crons">>}]

MCRowOrder == <<"fleet", "desired">> :> 1 @@ <<"fleet", "crons">> :> 2 @@
              <<"endpoint", "desired">> :> 3

OneCheckout == [s \in MCSyncs |-> 1]
OwnCheckouts == (p :> 1) @@ (w :> 2)

\* What may be wrong with a commit: nothing; an override that fails the validation of
\* the provider release, or that does not render at all; too many predicates; an
\* override of somebody who is not enrolled.
Sound == [rejected |-> {}, strangers |-> {}]
Invalid == [rejected |-> {<<2, "endpoint", "canonical">>}, strangers |-> {}]
Broken == [rejected |-> {2} \X {"endpoint"} \X Renderings, strangers |-> {}]
Unbounded == [rejected |-> {<<2, "fleet", "variants">>}, strangers |-> {}]
Strange == [rejected |-> {}, strangers |-> {2, 3}]

\* Sound commits with each disturbance, the others without; and a call that fails beside
\* an override that cannot be stored.
Drawn(home, x, budgets) ==
  { [home |-> h, rejected |-> x.rejected, strangers |-> x.strangers,
     faults |-> b[1], crashes |-> b[2], ages |-> b[3]] : h \in home, b \in budgets }

MCHistories ==
  Drawn({OneCheckout, OwnCheckouts}, Sound, {<<1, 0, 0>>, <<0, 1, 0>>, <<0, 0, 1>>})
  \cup UNION { Drawn({OneCheckout}, x, {<<0, 0, 0>>}) : x \in {Invalid, Broken, Unbounded} }
  \cup Drawn({OwnCheckouts}, Invalid, {<<0, 0, 0>>})
  \cup Drawn({OneCheckout}, Strange, {<<1, 0, 0>>})

Refusing == {[home |-> OneCheckout, rejected |-> Invalid.rejected, strangers |-> {},
              faults |-> 0, crashes |-> 0, ages |-> 0]}
=============================================================================
