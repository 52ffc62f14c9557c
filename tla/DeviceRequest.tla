--------------------------- MODULE DeviceRequest ---------------------------
(***************************************************************************)
(* DeviceParser.cpp, DeviceAccess.cpp and the constructor of DeviceMount:  *)
(* the --device option, host device[:container device][:access].           *)
(***************************************************************************)
EXTENDS Strings

CONSTANT DeviceFile   \* paths of the host that are device files

IsDeviceFile(path) == path \in DeviceFile

Letters == <<"r", "w", "m">>

\* One to three different letters.
CreateDeviceAccess(s) ==
  IF Len(s) \in 1..3 /\ Cardinality(ToSet(s)) = Len(s) /\ ToSet(s) \subseteq ToSet(Letters)
  THEN {ToSet(s)} ELSE {}
AccessString(access) == SelectSeq(Letters, LAMBDA c : c \in access)

\* A second token that is not absolute is the access.
Fields(tokens) ==
  CASE Len(tokens) = 1 -> <<tokens[1], tokens[1], Letters>>
    [] Len(tokens) = 2 /\ IsAbsolute(tokens[2]) -> <<tokens[1], tokens[2], Letters>>
    [] Len(tokens) = 2 /\ ~IsAbsolute(tokens[2]) -> <<tokens[1], tokens[1], tokens[2]>>
    [] OTHER -> tokens

ParseDeviceRequest(request) ==
  LET tokens == Split(request, Colon)
      f == Fields(tokens)
  IN IF Len(tokens) <= 3 /\ IsAbsolute(f[1]) /\ IsAbsolute(f[2]) /\ IsDeviceFile(f[1])
     THEN {[source |-> f[1], destination |-> f[2], access |-> a] :
             a \in CreateDeviceAccess(f[3])}
     ELSE {}
------------------------------------------------------------------------------
\* A device in full.
DeviceString(d) == Join(<<d.source, d.destination, AccessString(d.access)>>, Colon)

\* A request, written in full, is parsed as the same device; so is the request
\* without its last part when that part is the one that is assumed.
DeviceReadBack(text) ==
  \A d \in ParseDeviceRequest(text) :
    /\ ParseDeviceRequest(DeviceString(d)) = {d}
    /\ d.access = ToSet(Letters) =>
         ParseDeviceRequest(Join(<<d.source, d.destination>>, Colon)) = {d}
    /\ d.source = d.destination =>
         ParseDeviceRequest(Join(<<d.source, AccessString(d.access)>>, Colon)) = {d}
==============================================================================
