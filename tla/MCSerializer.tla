---------------------------- MODULE MCSerializer ----------------------------
EXTENDS Serializer

Of(kind, versions) == {GVK("group", v, kind) : v \in versions}

\* A classic kind, one of whose external types is in two versions; a type without
\* an internal one; a CRD; kinds that miss a Hub or a method ConvertTo; and a group
\* without external versions.
MCKinds ==
  [Int |-> Of("Classic", {Internal}), Ext1 |-> Of("Classic", {"v1"}),
   Ext2 |-> Of("Classic", {"v2", "v3"}), Alone |-> Of("Alone", {"v1"}),
   Spoke1 |-> Of("CRD", {"v1"}), Spoke2 |-> Of("CRD", {"v2"}), Hub3 |-> Of("CRD", {"v3"}),
   Hubless |-> Of("Hubless", {"v1"}), Inner |-> {GVK("inner", Internal, "Inner")},
   Plain |-> Of("Half", {"v1"}), Half |-> Of("Half", {"v2"}), HalfHub |-> Of("Half", {"v3"})]

MCHubs == {"Hub3", "HalfHub"}
MCSpokes == {"Spoke1", "Spoke2", "Hubless", "Half"}

MCFields ==
  [type \in DOMAIN MCKinds |->
     IF type \in {"Int", "Ext2", "Hub3", "HalfHub"} THEN {"a", "b"}
     ELSE IF type = "Spoke2" THEN {"b"} ELSE {"a"}]

MCDefaults ==
  [type \in DOMAIN MCKinds |->
     IF type \in {"Ext1", "Spoke1"} THEN {"a"} ELSE IF type \in {"Ext2", "Hub3"} THEN {"b"} ELSE {}]

MCPreferred == [group |-> "v1"]

Doc(version, kind, fields) ==
  [gvk |-> GVK("group", version, kind), data |-> [f \in fields |-> "author"], items |-> <<>>]
List(items) == [gvk |-> listGVK, data |-> <<>>, items |-> items]

MCTop ==
  {Doc("v1", "Classic", {"a"}), Doc("v1", "Classic", {"b"}), Doc("v3", "Classic", {"a", "b"}),
   Doc("v1", "Alone", {}), Doc("v1", "CRD", {"a"}), Doc("v3", "CRD", {"a"}),
   Doc("v1", "Hubless", {}), Doc("v2", "Half", {}),
   Doc("v4", "CRD", {"a"}), Doc("v1", "Other", {}), [Doc("v1", "CRD", {}) EXCEPT !.gvk.group = ""],
   List(<<Doc("v1", "Classic", {"a"}), Doc("v1", "CRD", {})>>),
   List(<<List(<<>>), Doc("v1", "Other", {})>>)}

MCDocuments == MCTop \cup {Doc("v2", "Classic", {"b"}), Doc("v1", "CRD", {}), List(<<>>)}

MCFiles ==
  {<<d>> : d \in MCTop}
    \cup {<<Doc("v2", "Classic", {"b"}), d>> : d \in MCTop}

Opt(set) == [o \in {"hub", "strict", "default", "lists", "unknown"} |-> o \in set]
MCOptions ==
  {Opt({"strict", "lists"}), Opt({"strict", "unknown"}), Opt({"lists", "default"}), Opt({"lists", "hub"}),
   Opt({"lists", "hub", "default", "unknown"})}

\* What a call's result depends on: not on the history, or the last error.
View == <<listKnown, file, objs, error = "panic">>
=============================================================================
