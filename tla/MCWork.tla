------------------------------- MODULE MCWork -------------------------------
\* An hour of six minutes and a clock that runs for as long; a job every third minute,
\* one whose range is not a multiple of its step, one that lists its minutes; a release
\* of the agent that installs and one that does not.
EXTENDS Work

Minutes(lo, hi, step) == [lo |-> lo, hi |-> hi, step |-> step]
EveryThird == {Minutes(0, 5, 3)}
FromOne == {Minutes(1, 5, 2)}
Listed == {Minutes(0, 0, 1), Minutes(2, 2, 1)}

Given(job, crons, versions, diagnostics, faults, releases) ==
    [job |-> job, crons |-> crons, versions |-> versions, diagnostics |-> diagnostics,
     faults |-> faults, releases |-> releases]

MCScenarios == {Given(EveryThird, TRUE, {}, 0, 2, 0),
                Given(FromOne, TRUE, {}, 0, 1, 0),
                Given(Listed, TRUE, {2}, 0, 1, 0),
                Given(EveryThird, TRUE, {}, 0, 0, 2),
                Given(EveryThird, FALSE, {None, 2, 3}, 1, 1, 0),
                Given(EveryThird, FALSE, {}, 2, 2, 0)}
=============================================================================
