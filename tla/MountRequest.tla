---------------------------- MODULE MountRequest ----------------------------
(***************************************************************************)
(* MountParser.cpp: from the key-value pairs of a --mount option to the    *)
(* mount that module BindMount makes.                                      *)
(***************************************************************************)
EXTENDS Strings

CONSTANTS
  DestinationDisallowedWithPrefix,   \* as configured by the administrator
  DestinationDisallowedExact

Type == <<"type">>
SourceKeys == {<<"source">>, <<"src">>}
DestinationKeys == {<<"destination">>, <<"dst">>, <<"target">>}

\* One and only one of the keys is in use, for an absolute path.
PathOf(map, keys) ==
  LET given == keys \cap DOMAIN map
  IN IF Cardinality(given) # 1 THEN {}
     ELSE {path \in {map[key] : key \in given} : IsAbsolute(path)}

\* Nothing configures a restriction of the sources.
GetValidatedMountSource(map) == PathOf(map, SourceKeys)
GetValidatedMountDestination(map) ==
  {path \in PathOf(map, DestinationKeys) :
     /\ \A prefix \in DestinationDisallowedWithPrefix : ~StartsWith(path, prefix)
     /\ path \notin DestinationDisallowedExact}

\* Recursive and private always.  The value of readonly is not looked at.
ConvertBindMountFlags(map) ==
  LET flagsMap == DOMAIN map \ ({Type} \cup SourceKeys \cup DestinationKeys)
  IN IF flagsMap \subseteq {<<"readonly">>}
     THEN {{"MS_REC", "MS_PRIVATE"} \cup (IF flagsMap = {} THEN {} ELSE {"MS_RDONLY"})}
     ELSE {}

ParseBindMountRequest(map) ==
  {[source |-> s, destination |-> d, flags |-> f] :
     s \in GetValidatedMountSource(map),
     d \in GetValidatedMountDestination(map),
     f \in ConvertBindMountFlags(map)}

ParseMountRequest(map) ==
  IF Type \in DOMAIN map /\ map[Type] = <<"bind">> THEN ParseBindMountRequest(map) ELSE {}

\* In whichever order the unordered map has its keys.
ConvertRequestMapToString(map, keys) ==
  Join([i \in DOMAIN keys |-> IF map[keys[i]] = <<>> THEN keys[i]
                              ELSE Append(keys[i], Equals) \o map[keys[i]]], Comma)
------------------------------------------------------------------------------
\* What parseMap and parseMountRequest make of the text of an option.
MountsOf(text) == UNION {ParseMountRequest(map) : map \in ParseMap(text)}

Orders(S) == {[i \in DOMAIN s |-> s[i]] : s \in SetToSeqs(S)}

\* The order of the pairs of an option does not matter: neighbours commute.
PairsCommuteIn(pairs) ==
  \A i \in DOMAIN pairs \ {1} :
    MountsOf(Join([pairs EXCEPT ![i] = pairs[i - 1], ![i - 1] = pairs[i]], Comma))
      = MountsOf(Join(pairs, Comma))

\* A map, printed in any order, is parsed as the same map.
MapReadBack(text) ==
  \A map \in ParseMap(text) : \A keys \in Orders(DOMAIN map) :
    ParseMap(ConvertRequestMapToString(map, keys)) = {map}
==============================================================================
