----------------------------- MODULE Recognition -----------------------------
(***************************************************************************)
(* Whom the service names: search() and identify() of                      *)
(* app/services/face_index.py and the /search endpoint of                  *)
(* app/routers/face.py, over the cached registry of FaceIndex.tla.         *)
(*                                                                         *)
(* A probe is known by its similarity to every embedding, an integer: only *)
(* order and differences matter.  Embeddings, and so the scores, belong to *)
(* entries <<user, version>>; the snapshot may hold two of one user.       *)
(***************************************************************************)
EXTENDS FaceIndex, Integers, Sequences

CONSTANTS MaxScore,   \* bound: similarities
          Threshold,  \* settings.IDENTIFY_THRESHOLD
          Margin,     \* settings.IDENTIFY_MARGIN
          SearchFrom, \* settings.SIMILARITY_THRESHOLD, or the request's own
          MaxLimit    \* bound: `limit` of a search request

ASSUME RecognitionAssumption ==
    /\ MaxScore \in Nat /\ Threshold \in Int /\ Margin \in Int
    /\ SearchFrom \in Int /\ MaxLimit \in Nat

Score == 0 .. MaxScore

\* A definition named Wrong... is a plausible bug in the definition after it; the
\* properties are tested against it and no action uses it.

-----------------------------------------------------------------------------
(* Scoring. *)

AtMost(a, b) == IF a < b THEN a ELSE b
AtLeast(a, b) == IF a > b THEN a ELSE b

\* max(1, min(top_k, len(user_ids)))
Places(entries, k) == AtLeast(1, AtMost(k, Cardinality(entries)))

\* r ranks distinct entries, best first, and leaves out none that is better.
Ranks(r, entries, s) ==
    /\ \A i, j \in DOMAIN r : i < j => r[i] # r[j] /\ s[r[i]] >= s[r[j]]
    /\ \A e \in entries : \/ \E i \in DOMAIN r : r[i] = e
                          \/ \A i \in DOMAIN r : s[e] <= s[r[i]]

\* search(): the possible rankings of the top k.  argpartition and argsort decide
\* ties as they like.
Top(entries, s, k) ==
    IF entries = {} THEN {<<>>}
    ELSE {r \in [1 .. Places(entries, k) -> entries] : Ranks(r, entries, s)}

WrongClearOfSecond(s, r) == Len(r) > 1 /\ s[r[1]] - s[r[2]] >= Margin

\* `len(matches) > 1 and lead < margin` is what makes a probe ambiguous: a lone
\* employee has nobody to be confused with.
ClearOfSecond(s, r) == Len(r) > 1 => s[r[1]] - s[r[2]] >= Margin

\* identify() over the top two: what it decides, and the user it names, if any.
Status(s, r) ==
    IF Len(r) = 0 THEN "empty_registry"
    ELSE IF s[r[1]] < Threshold THEN "unknown"
    ELSE IF ~ClearOfSecond(s, r) THEN "ambiguous"
    ELSE "identified"

Identify(s, r) == IF Status(s, r) = "identified" THEN r[1][1] ELSE NoUser

WrongTopK(limit) == limit - 1

\* search_face asks the index for max(request.limit, 1).
TopK(limit) == AtLeast(limit, 1)

\* The places of the ranking whose entries reach the threshold of the request.
Reaching(s, r) == {i \in DOMAIN r : s[r[i]] >= SearchFrom}

\* search_face: the entries at these places in their order, cut to the limit.  A
\* limit of zero cuts everything: at most one match was asked for.
Matches(s, r, limit) ==
    LET kept == Reaching(s, r)
    IN  [n \in 1 .. AtMost(limit, Cardinality(kept)) |->
            r[CHOOSE i \in kept : Cardinality({j \in kept : j <= i}) = n]]

-----------------------------------------------------------------------------
(* Properties.  The answers are functions of the snapshot, so the properties   *)
(* speak of every probe that might be asked about in a state.                 *)

Enrolled == UNION {InRegistry(u) : u \in User}
Probe == [snapshot \cup Enrolled -> Score]

\* Nothing about u is on its way or has been missed.
Settled(u) == ~InFlight(u) /\ \A r \in Reason : <<u, r>> \notin missed

\* "Declining beats guessing" (README.md): who is named by a loaded index is
\* enrolled with an embedding above the threshold that leads the embedding every
\* other employee is enrolled with now by the margin, whatever changes the cache
\* has missed about third persons, and however ties are ranked.
NamesOnlyTheClear ==
    loaded => \A s \in Probe : \A r \in Top(snapshot, s, 2) : \A u \in User :
       Identify(s, r) = u /\ Settled(u) =>
          \E e \in InRegistry(u) :
             /\ s[e] >= Threshold
             /\ \A v \in User \ {u} : Settled(v) =>
                   \A f \in InRegistry(v) : s[e] - s[f] >= Margin

\* An employee whose enrolled embedding is ahead of all others, by the margin, is
\* named, unless some change of the registry is on its way or was missed: also
\* when she is the only one, and after she enrolled again during a scan.
NamesTheClear ==
    loaded /\ (\A u \in User : Settled(u)) =>
       \A s \in Probe : \A e \in Enrolled :
          /\ s[e] >= Threshold
          /\ \A f \in Enrolled \ {e} : s[e] > s[f] /\ s[e] - s[f] >= Margin
          => \A r \in Top(snapshot, s, 2) : Identify(s, r) = e[1]

\* What identify() promises (face_index.py:171-173): it names exactly the employees
\* who are clear of all others, as far as the cache has been told of them.
NamesExactlyTheClear == NamesOnlyTheClear /\ NamesTheClear

\* A search returns as many entries above its threshold as there are and its
\* limit allows, and leaves out none that scores higher than one it returns
\* (face.py:450-456).
SearchFindsBest ==
    loaded => \A s \in Probe : \A limit \in 0 .. MaxLimit :
       \A r \in Top(snapshot, s, TopK(limit)) :
          LET found == Matches(s, r, limit)
              good == {e \in snapshot : s[e] >= SearchFrom}
          IN  /\ Len(found) = AtMost(limit, Cardinality(good))
              /\ \A e \in good : \A i \in DOMAIN found :
                    s[e] > s[found[i]] => \E j \in 1 .. i : found[j] = e
=============================================================================
