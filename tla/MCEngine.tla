------------------------------- MODULE MCEngine -------------------------------
(***************************************************************************)
(* Small instances of Engine for TLC.  Each definition puts one of the     *)
(* races of advance within reach: a join whose dependencies complete at    *)
(* the same time, a fork, a diamond, a chain of calls out, a step that     *)
(* fails beside others that go on.                                         *)
(***************************************************************************)
EXTENDS EngineProperties, TLC

\* A definition of n steps without static inputs and published outputs.
Graph(n, triggers, edges) ==
    [trigger   |-> triggers,
     dependsOn |-> [s \in 1 .. n |-> {e[1] : e \in {f \in edges : f[2] = s}}],
     static    |-> {},
     publish   |-> {}]

-----------------------------------------------------------------------------
\* Three steps

\* Two steps answered from outside join in an auto step that publishes.
Join == [Graph(3, <<"manual", "queueti", "auto">>, {<<1, 3>>, <<2, 3>>})
            EXCEPT !.publish = {1, 3}]

\* The same join with an http step: two calls find it ready at once.
JoinHTTP == [Graph(3, <<"manual", "manual", "http">>, {<<1, 3>>, <<2, 3>>})
                EXCEPT !.publish = {3}]

\* An http step that may fail beside a chain that goes on without it.
Beside == [Graph(3, <<"manual", "http", "manual">>, {<<1, 3>>})
              EXCEPT !.static = {2}, !.publish = {2}]

\* A manual step forks into an http and an auto step.
Fork == [Graph(3, <<"manual", "http", "auto">>, {<<1, 2>>, <<1, 3>>})
            EXCEPT !.publish = {3}]

\* Two http steps in a row, then a message.
Chain == [Graph(3, <<"http", "http", "queueti">>, {<<1, 2>>, <<2, 3>>})
             EXCEPT !.static = {3}, !.publish = {2}]

\* Validate accepts this one: the last two steps wait for each other.
Cycle == Graph(3, <<"manual", "auto", "auto">>, {<<3, 2>>, <<1, 3>>, <<2, 3>>})

ThreeSteps == {Join, JoinHTTP, Beside, Fork, Chain, Cycle}
OnlyFork == {Fork}

-----------------------------------------------------------------------------
\* Four steps

\* Three calls complete the dependencies of one http step.
Join4 == [Graph(4, <<"manual", "queueti", "manual", "http">>, {<<1, 4>>, <<2, 4>>, <<3, 4>>})
             EXCEPT !.publish = {4}]

\* Two answered steps, each with an auto step of its own, joined by a third.
Ladder == [Graph(4, <<"manual", "manual", "auto", "auto">>, {<<1, 3>>, <<2, 4>>, <<3, 4>>})
              EXCEPT !.publish = {3, 4}]

\* Fork into an http and a manual step, joined by a message with a static input.
Diamond == [Graph(4, <<"auto", "http", "manual", "queueti">>,
                     {<<1, 2>>, <<1, 3>>, <<2, 4>>, <<3, 4>>})
               EXCEPT !.static = {1, 4}, !.publish = {1, 3}]

\* Two http steps beside two manual ones: failures race completions.
Pairs == [Graph(4, <<"manual", "manual", "http", "http">>, {<<1, 3>>, <<2, 4>>})
             EXCEPT !.publish = {3}]

FourSteps == {Join4, Ladder, Diamond, Pairs}

-----------------------------------------------------------------------------
WorkerSymmetry == Permutations(Workers)

=============================================================================
