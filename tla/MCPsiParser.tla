----------------------------- MODULE MCPsiParser -----------------------------
(* A protected and a clear channel.  SameVersion: do their PATs have the   *)
(* same version number, as those of the repository's test streams do?      *)
EXTENDS PsiParser

CONSTANT SameVersion

mcPids == 0..3
mcVersions == {1, 2}

packetOf(c, kind, pid, ver, names, part, of) ==
  [ch |-> c, kind |-> kind, pid |-> pid, ver |-> ver, names |-> names,
   part |-> part, of |-> of, sync |-> TRUE]

mcBroadcast ==
  [c \in {"protected", "open"} |->
     IF c = "protected"
       THEN <<packetOf(c, "pat", 0, 1, 1, 0, 0), packetOf(c, "pmt", 1, 1, 2, 0, 0),
              packetOf(c, "ecm", 2, 1, NoPid, 1, 2), packetOf(c, "ecm", 2, 1, NoPid, 2, 2)>>
       ELSE <<packetOf(c, "pat", 0, IF SameVersion THEN 1 ELSE 2, 3, 0, 0),
              [packetOf(c, "media", 3, 1, NoPid, 0, 0) EXCEPT !.sync = FALSE],
              packetOf(c, "pmt", 3, 1, NoPid, 0, 0)>>]

(* Both are broadcasts the parser can be right about.                      *)
ASSUME BroadcastAssumption == WellFormed
=============================================================================
