----------------------------- MODULE MCDataAccess -----------------------------
(***************************************************************************)
(* Two actions, one in two spellings, and decisions on them.               *)
(***************************************************************************)
EXTENDS DataAccess, TLC

Spelled(text, padded) == [text |-> text, padded |-> padded]

SmallWords == {Spelled("read", FALSE), Spelled("read", TRUE), Spelled("write", FALSE)}

\* One method, and two spellings of it that need different actions; tables that are
\* refused.
SmallTables ==
    LET list == Spelled("list", FALSE)
        read == Spelled("read", FALSE)
    IN  {list :> <<read, Spelled("write", TRUE)>>,
         list :> <<read>> @@ Spelled("list", TRUE) :> <<Spelled("write", FALSE)>>,
         list :> <<read, Spelled("read", TRUE)>>, list :> <<>>,
         Spelled("", TRUE) :> <<read>>}

Row(dimension, refs, relationKey, descendants) ==
    [dimension |-> dimension, refs |-> refs, relationKey |-> relationKey,
     descendants |-> descendants]
Grant == [field |-> "name", actions |-> <<1, 2>>]

SoundConstraints ==
    [row |-> Row("organization", <<"x", "y">>, FALSE, TRUE), grant |-> Grant]
UnsoundConstraints ==
    [row |-> Row("tenant", <<"x", " x">>, FALSE, FALSE),
     grant |-> [field |-> "name", actions |-> <<1, 1>>]]
SmallConstraints == {SoundConstraints, UnsoundConstraints}

\* What may be granted for each spelling, a refusal, and constraints that are not sound.
SmallAnswers ==
    {[word |-> w, allowed |-> TRUE, expiresAt |-> 2, says |-> SoundConstraints] :
        w \in SmallWords} \cup
    {[word |-> Spelled("read", FALSE), allowed |-> FALSE, expiresAt |-> 2,
      says |-> SoundConstraints],
     [word |-> Spelled("write", FALSE), allowed |-> TRUE, expiresAt |-> 2,
      says |-> UnsoundConstraints]}
=============================================================================
