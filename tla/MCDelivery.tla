----------------------------- MODULE MCDelivery -----------------------------
\* Three releases: the second repeats the artifact of the first and has another of a
\* newer schema, the third has one for any endpoint and one for Ubuntu that needs more.
\* The endpoint, on Ubuntu, can do as much as a legacy agent or more.  Two handlers, and
\* the scenarios of the run: one call at a time with two or three disturbances, or
\* handlers that overlap with two.
EXTENDS Delivery

Command == <<"resource:command", "command-v1">>
Apt == <<"provider:apt", "apt-v1">>
AnyTarget == [distro |-> {}, architecture |-> {}]
Ubuntu == [AnyTarget EXCEPT !.distro = {"ubuntu"}]

MCReleases == 1..3
MCVariants ==
    <<[release |-> 1, digest |-> 1, schema |-> 0, target |-> AnyTarget, needs |-> {Command}],
      [release |-> 2, digest |-> 1, schema |-> 0, target |-> AnyTarget, needs |-> {Command}],
      [release |-> 2, digest |-> 2, schema |-> 1, target |-> AnyTarget, needs |-> {Command}],
      [release |-> 3, digest |-> 3, schema |-> 0, target |-> AnyTarget, needs |-> {Command}],
      [release |-> 3, digest |-> 4, schema |-> 0, target |-> Ubuntu,
       needs |-> {Command, Apt}]>>
MCFacts == [distro |-> "ubuntu", architecture |-> "x86"]
MCDocumentOf ==
    <<[facts |-> MCFacts, schemas |-> {0}, contracts |-> {Command}],
      [facts |-> MCFacts, schemas |-> {0, 1}, contracts |-> {Command, Apt}]>>
MCDisturbed ==
    {[start |-> 2, overlap |-> FALSE, known |-> FALSE, faults |-> 1, changes |-> 2],
     [start |-> 1, overlap |-> FALSE, known |-> TRUE, faults |-> 1, changes |-> 1],
     [start |-> 1, overlap |-> FALSE, known |-> TRUE, faults |-> 2, changes |-> 0],
     [start |-> 1, overlap |-> TRUE, known |-> TRUE, faults |-> 1, changes |-> 1]}
=============================================================================
