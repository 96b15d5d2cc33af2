------------------------------ MODULE FetchMC ------------------------------
(***************************************************************************)
(* Two tasks whose recipes agree on the file (a recipe and its native      *)
(* variant, or two builds on one download directory), one whose recipe has *)
(* another checksum for the name and another upstream, a server that is    *)
(* asked before upstream and again behind it, and a file mirror behind it. *)
(***************************************************************************)
EXTENDS Fetch

CONSTANTS good, other, t1, odd, up, up2, loc, mir

MCWants      == [t \in Tasks |-> IF t = odd THEN other ELSE good]
MCUpstreamOf == [t \in Tasks |-> IF t = odd THEN up2 ELSE up]
MCPremirrors == <<mir>>
MCMirrors    == <<loc, mir>>
MCNone       == <<>>
MCServer     == <<mir>>

\* A file that can be had is had: at once from a mirror that is asked first, in
\* the end from upstream.  What holds of t1 holds of its twin.
FetchSucceeds == FailsForAReason /\ EventuallyFetched(t1) /\ EventuallyFetched(odd)

\* A good upstream is enough for a build that is started again.
UpstreamIsEnough == <>[]Accepts(t1, serves[up]) => []<>(pc[t1] = "fetched")
=============================================================================
