----------------------------- MODULE MCSecrets ------------------------------
\* Two versions and two releases: the second adds a reference to an exact version.
\* Each scenario has every interleaving of a few operators' requests.
EXTENDS Secrets

Network == "network-credential"
Password == "password-hash"
MCVersion == 1..2
MCRelease == 1..2
MCReferences == <<[u \in {Network} |-> FollowsActive],
                  [u \in {Network, Password} |-> IF u = Network THEN FollowsActive ELSE 1]>>
MCHighRisk == {Network}
Always == {0..MaxTime}
Sometimes == {{0}, {1}}
MCScenarios ==
    {[kinds |-> {"activate", "authorize", "withdraw", "resume"}, budget |-> 3, time |-> 0,
      openings |-> Always, faults |-> 0, shared |-> FALSE],
     [kinds |-> {"activate", "authorize", "delete"}, budget |-> 2, time |-> 0,
      openings |-> Always, faults |-> 1, shared |-> TRUE],
     [kinds |-> {"activate", "authorize", "revoke", "publish"}, budget |-> 3, time |-> 0,
      openings |-> Always, faults |-> 0, shared |-> FALSE],
     [kinds |-> {"activate", "authorize", "revoke"}, budget |-> 2, time |-> 1,
      openings |-> Sometimes, faults |-> 1, shared |-> FALSE]}
=============================================================================
