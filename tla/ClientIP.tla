------------------------------ MODULE ClientIP ------------------------------
(***************************************************************************)
(* The address a request is attributed to (package clientip).  An address  *)
(* is what hostOnly leaves of a hop.  Text that is no IP address is a      *)
(* member of Address that nobody trusts.                                   *)
(***************************************************************************)
EXTENDS Naturals, Sequences, SequencesExt

CONSTANTS
  Address,
  Trusted,  \* the addresses --trusted-proxies covers
  Blank     \* an empty part of X-Forwarded-For

ASSUME AddressAssumption == Trusted \subseteq Address /\ Blank \notin Address

isTrusted(a) == a \in Trusted

\* The parts of all X-Forwarded-For headers in order, without the empty ones.
forwardedFor(parts) ==
  FoldLeft(LAMBDA hops, hop : IF hop = Blank THEN hops ELSE Append(hops, hop), <<>>, parts)

\* Mutant of FromRequest: the walk starts from the left.
FromRequest_LeftToRight(peer, parts) ==
  LET hops  == forwardedFor(parts)
      first == SelectInSeq(hops, LAMBDA h : ~isTrusted(h))
  IN  IF isTrusted(peer) /\ first # 0 THEN hops[first] ELSE peer

\* The last hop that is none of our proxies, if the peer is one of them.  With no
\* trusted proxies the peer is not trusted either.
FromRequest(peer, parts) ==
  LET hops == forwardedFor(parts)
      last == SelectLastInSeq(hops, LAMBDA h : ~isTrusted(h))
  IN  IF isTrusted(peer) /\ last # 0 THEN hops[last] ELSE peer
=============================================================================
