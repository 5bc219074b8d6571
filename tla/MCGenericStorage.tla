-------------------------- MODULE MCGenericStorage --------------------------
(***************************************************************************)
(* Small instances of GenericStorage.  A run takes one of two scenarios:   *)
(* two clients that make any calls of the same keys, or two clients that   *)
(* write to different keys while a walker lists them.                      *)
(***************************************************************************)
EXTENDS GenericStorage, TLC

CONSTANTS c1, c2, w1, k1, k2, other, f1

MCClients == {c1, c2}
MCWalkers == {w1}
MCKeys == {k1, k2, other}
MCSupported == {k1, k2}

\* Identifiers made of UIDs: each object has a directory of its own.
UIDFirst == <<"uid", "name">>

\* Identifiers "namespace/name": the directories are in that of the namespace.
NameOnly == <<"name">>

MCMeta ==
  [k \in MCKeys |->
     [name |-> CASE k = k1 -> <<"a">> [] k = k2 -> <<"a", "b">> [] OTHER -> <<"c">>,
      namespace |-> <<"n">>, uid |-> <<k>>]]

ByName(n, s, p) ==
  [by |-> "name", name |-> n, namespace |-> s, matchPrefix |-> p]
ByUID(u, p) == [by |-> "uid", uid |-> u, matchPrefix |-> p]

VARIABLE scenario

mcVars == <<vars, scenario>>

Calling == {c \in Clients : calls[c] # NoCall}

\* The calls that the clients make.
Scenario ==
  \A c \in Calling :
    LET call == calls[c]
        arguments == [op \in Reads \cup Writes |->
                        CASE call.pc = "done" \/ op \in Reads \cup {"delete"} -> {{}}
                          [] scenario = "calls" /\ op # "patch" -> Values
                          [] OTHER -> {{f1}}]
    IN /\ call.arg \in arguments[call.op]
       /\ IF scenario = "calls" THEN call.key # k2
          ELSE /\ call.op \in Writes \ {"patch"} /\ call.key # other
               /\ \A d \in Calling \ {c} : calls[d].key # call.key

MCInit == Init /\ scenario \in {"calls", "lists"}

MCNext ==
  /\ Next
  /\ UNCHANGED scenario
  /\ Scenario'
  /\ scenario = "calls" => walks' = walks

MCSpec == MCInit /\ [][MCNext]_mcVars

Symmetry == Permutations({c1, c2})

MCFilters ==
  {<<>>, <<ByName(<<"a">>, <<>>, TRUE)>>, <<ByName(<<"a">>, <<"n">>, FALSE)>>,
   <<ByName(<<"a">>, <<"n">>, TRUE), ByUID(<<k2>>, FALSE)>>,
   <<ByName(<<"a">>, <<"m">>, TRUE)>>, <<ByUID(<<>>, TRUE)>>}
=============================================================================
