------------------------------ MODULE HttpTypes ------------------------------
(***************************************************************************)
(* The value types of the http-types crate that calculate: the algebra of  *)
(* ResourceIdentifier (identifier.rs) and the Accept header of an          *)
(* Operation (operation.rs).  An identifier is a string cut at every '/',  *)
(* so "http://h/a/" is <<"http:", "", h, a, "">>; "" is BlankPart.  A      *)
(* caller makes identifiers of identifiers and reads a header part by      *)
(* part.                                                                   *)
(***************************************************************************)
EXTENDS Integers, SequencesExt, FiniteSetsExt

CONSTANTS
  Scheme,       \* "http:"
  BlankPart,    \* the empty string
  Names,        \* path segments, and the hosts of URLs
  Hosts,        \* the names that Url::parse takes for an authority
  Dot, DotDot,  \* "." and ".."
  Encoded,      \* the path text that Url::parse makes of a name
  Cut,          \* the names that hold a '?' or '#', where the path ends
  Beginnings,   \* the names a name begins with
  MaxParts,     \* bound on the parts of an identifier
  MediaTypes,
  Weights,      \* the numbers a q may name, in tenths
  NoWeight,     \* no q
  Unparsable,   \* a q that is no number
  NaN,          \* the q that f32 reads as not a number: "q=NaN"
  SmallSort,    \* how many elements the standard library sorts by insertion
  MaxRanges     \* bound on the parts of a header

\* Of the constants.
Distinct ==
  /\ Hosts \subseteq Names /\ Scheme \notin Names /\ BlankPart \notin Names
  /\ Scheme # BlankPart
  /\ {Dot, DotDot} \cup Cut \subseteq Names
  /\ Encoded \in [Names -> Names \cup {BlankPart}]
  /\ Beginnings \in [Names -> SUBSET Names]
  /\ \A n \in Names : n \in Beginnings[n]
  /\ Weights \subseteq Int
  /\ NaN \notin Int /\ {NoWeight, Unparsable} \cap (Int \cup {NaN}) = {}
  /\ NoWeight # Unparsable

VARIABLES
  id,      \* an identifier
  header,  \* the parts of an Accept header
  ranges   \* the media ranges that have been made of it

vars == <<id, header, ranges>>

-----------------------------------------------------------------------------
(*                              Identifiers                                *)

is_container(i) == Len(i) > 1 /\ Last(i) = BlankPart

as_container(i) == IF is_container(i) THEN i ELSE Append(i, BlankPart)

\* trim_end_matches('/'): all of them go.
as_document(i) ==
  LET some == {n \in 1..Len(i) : i[n] # BlankPart} IN
  SubSeq(i, 1, IF some = {} THEN 1 ELSE Max(some))

HasParent(i) == Len(as_document(i)) > 1

parent_Verbatim(i) == Append(Front(i), BlankPart)   \* faulty: nothing trimmed

\* The text up to the last '/' keeps that '/', and gets another.
parent(i) == Front(as_document(i)) \o <<BlankPart, BlankPart>>

\* segment is a name, or one with a '/' before it, which is trimmed.
join(i, segment) == Append(as_document(i), segment)

IsBare(i) == i[1] = BlankPart
IsUrl(i)  == Len(i) >= 3 /\ i[1] = Scheme /\ i[2] = BlankPart /\ i[3] \in Hosts

\* Url::parse passes over any number of '/' before the authority.
HasAuthority(i) == \E n \in 2..Len(i) : i[n] # BlankPart
Authority(i) == Min({n \in 2..Len(i) : i[n] # BlankPart})
Parses(i) == i[1] = Scheme /\ HasAuthority(i) /\ i[Authority(i)] \in Hosts

\* "." goes, ".." takes the segment before it along; what ends in either is
\* a container.
Resolved(segments) ==
  LET kept[n \in 0..Len(segments)] ==
        IF n = 0 THEN <<>>
        ELSE IF segments[n] = Dot THEN kept[n - 1]
        ELSE IF segments[n] # DotDot THEN Append(kept[n - 1], segments[n])
        ELSE IF kept[n - 1] = <<>> THEN <<>> ELSE Front(kept[n - 1])
  IN kept[Len(segments)]
       \o IF Last(segments) \in {Dot, DotDot} THEN <<BlankPart>> ELSE <<>>

\* The path as Url::parse gives it, cut like an identifier and never empty:
\* without query and fragment, percent-encoded, and without dot segments.
UrlPath(i) ==
  LET rest     == SubSeq(i, Authority(i) + 1, Len(i))
      ends     == {n \in DOMAIN rest : rest[n] \in Cut}
      path     == IF ends = {} THEN rest ELSE SubSeq(rest, 1, Min(ends))
      segments == [n \in DOMAIN path |->
                     IF path[n] = BlankPart THEN BlankPart ELSE Encoded[path[n]]]
      dotted   == \E n \in DOMAIN segments : segments[n] \in {Dot, DotDot}
  IN <<BlankPart>> \o IF i[Authority(i)] \in Cut \/ rest = <<>> THEN <<BlankPart>>
                       ELSE IF dotted THEN Resolved(segments) ELSE segments

BeginsWith(part, text) ==
  text = BlankPart \/ (part # BlankPart /\ text \in Beginnings[part])

\* The '/' behind part n begins an occurrence of path, whose last part need
\* only be a beginning of what stands there.
Occurs(path, i, n) ==
  LET m == Len(path) - 1 IN
  /\ n + m <= Len(i)
  /\ \A k \in 1..(m - 1) : i[n + k] = path[k + 1]
  /\ BeginsWith(i[n + m], path[m + 1])

\* find looks for the text of the path from the start of the URL.
path_only(i) ==
  IF IsBare(i) \/ ~Parses(i) THEN i
  ELSE LET at == {n \in 1..Len(i) : Occurs(UrlPath(i), i, n)} IN
       IF at = {} THEN i
       ELSE <<BlankPart>> \o SubSeq(i, Min(at) + 1, Len(i))

-----------------------------------------------------------------------------
(*                            Accept headers                               *)

\* A part of the header: the media type, or BlankPart, and the text of q.
Part == [media_type: MediaTypes \cup {BlankPart},
         q: Weights \cup {NoWeight, Unparsable, NaN}]

\* f32::clamp, which lets NaN pass.
Clamp(q) == IF q = NaN THEN NaN
            ELSE IF q < 0 THEN 0 ELSE IF q > 10 THEN 10 ELSE q

\* One without q, or with a q that does not parse, is as good as the best.
MediaRange(p) ==
  [media_type |-> p.media_type,
   q |-> IF p.q \in {NoWeight, Unparsable} THEN 10 ELSE Clamp(p.q)]

\* partial_cmp knows no order of NaN, which is taken for equality.
Better(r, s) == NaN \notin {r.q, s.q} /\ r.q > s.q

\* Insertion passes over ranges as long as r is better than they are.
Ranked_Unstable(rs, r) ==   \* faulty: and over its equals
  InsertAt(rs, Max({0} \cup {i \in DOMAIN rs : Better(rs[i], r)}) + 1, r)

Ranked(rs, r) ==
  InsertAt(rs, Max({0} \cup {i \in DOMAIN rs : ~Better(r, rs[i])}) + 1, r)

Collected(parts) ==
  LET first[n \in 0..Len(parts)] ==
        IF n = 0 THEN <<>>
        ELSE IF parts[n].media_type = BlankPart THEN first[n - 1]
        ELSE Ranked(first[n - 1], MediaRange(parts[n]))
  IN first[Len(parts)]

\* sort_by is stable, so that insertion says what comes out; but the order
\* of a longer list in which NaN makes the comparison inconsistent is
\* unspecified.  (It may also panic, and then there is no list.)
from_accept_header(parts) ==
  LET rs == Collected(parts) IN
  IF Len(rs) <= SmallSort \/ \A i \in DOMAIN rs : rs[i].q # NaN THEN {rs}
  ELSE {[i \in DOMAIN rs |-> rs[p[i]]] : p \in Bijection(DOMAIN rs, DOMAIN rs)}

most_preferred(rs) == IF rs = <<>> THEN BlankPart ELSE rs[1].media_type

-----------------------------------------------------------------------------
Init ==
  /\ id \in {<<BlankPart, BlankPart>>}
              \cup {<<Scheme, BlankPart, h>> : h \in Hosts}
  /\ header = <<>>
  /\ ranges = <<>>

Derive ==
  /\ \/ id' = as_container(id)
     \/ id' = as_document(id)
     \/ HasParent(id) /\ id' = parent(id)
     \/ \E n \in Names : id' = join(id, n)
  /\ Len(id') <= MaxParts
  /\ UNCHANGED <<header, ranges>>

Read ==
  /\ Len(header) < MaxRanges
  /\ \E p \in Part : header' = Append(header, p)
  /\ ranges' \in from_accept_header(header')
  /\ UNCHANGED id

Next == Derive \/ Read

Spec == Init /\ [][Next]_vars

-----------------------------------------------------------------------------
\* There is a segment below the authority, or below the root.
HasSegment(i) ==
  \/ IsBare(i) /\ Len(as_document(i)) > 1
  \/ IsUrl(i) /\ Len(as_document(i)) > 3

\* Url::parse leaves the segment as it is.
Tidy(n) == Encoded[n] = n /\ n \notin Cut \cup {Dot, DotDot}

(***************************************************************************)
(* parent and join are inverse: joining the last segment to the parent     *)
(* gives the document back, however many '/' the two have left behind.     *)
(* path_only cuts a URL at the end of its authority, if Url::parse leaves  *)
(* its path alone and the host does not begin with its first segment.      *)
(* Otherwise it cuts too early: a URL without a segment keeps its          *)
(* authority, of which the documentation and a test say that it goes, and  *)
(* one whose only segment the host begins with keeps its host.             *)
(***************************************************************************)
IdentifiersRelate ==
  /\ HasSegment(id) =>
       /\ is_container(parent(id))
       /\ join(parent(id), Last(as_document(id))) = as_document(id)
  /\ /\ IsUrl(id) /\ HasSegment(id) /\ id[3] \notin Cut
     /\ \A n \in 4..Len(id) : id[n] = BlankPart \/ Tidy(id[n])
     /\ id[4] \notin Beginnings[id[3]]
     => path_only(id) = UrlPath(id) /\ UrlPath(id) = <<BlankPart>> \o SubSeq(id, 4, Len(id))
  /\ IsUrl(id) /\ Len(id) <= 4 /\ id[3] \notin Cut =>
       /\ ~HasSegment(id) => path_only(id) = <<BlankPart>> \o SubSeq(id, 2, Len(id))
       /\ HasSegment(id) /\ Tidy(id[4]) /\ id[4] \in Beginnings[id[3]]
            => path_only(id) = <<BlankPart>> \o SubSeq(id, 3, Len(id))

(***************************************************************************)
(* Every part of the header that names a type is listed once; one whose q  *)
(* does not parse as well, as one of the best, though the documentation    *)
(* has malformed parts skipped.  And if no q is NaN the list is ranked:    *)
(* better ones first, equals in the order of the header, and the most      *)
(* preferred type is that of the best of them.                             *)
(***************************************************************************)
PreferencesRanked ==
  LET named  == {n \in 1..Len(header) : header[n].media_type # BlankPart}
      q(n)   == MediaRange(header[n]).q
      before(m, n) == q(m) > q(n) \/ (q(m) = q(n) /\ m < n)
  IN /\ \E place \in Bijection(named, 1..Len(ranges)) :
          \A n \in named : ranges[place[n]] = MediaRange(header[n])
     /\ (\A n \in named : q(n) # NaN) =>
          /\ \A n \in named :
               ranges[Cardinality({m \in named : before(m, n)}) + 1]
                 = MediaRange(header[n])
          /\ named # {} =>
               \E n \in named : /\ most_preferred(ranges) = header[n].media_type
                                /\ \A m \in named \ {n} : before(n, m)

=============================================================================
