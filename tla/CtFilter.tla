------------------------------ MODULE CtFilter ------------------------------
(***************************************************************************)
(* The filter of a dump or a flush: ctnetlink_alloc_filter, which makes it *)
(* from the attributes of the request, and ctnetlink_filter_match, which   *)
(* applies it to an entry (vgw_ct_netlink.c), including the filter for a   *)
(* zone that this driver adds.                                             *)
(*                                                                         *)
(* A client adds one criterion after the other to a request for a dump or  *)
(* a flush; the entry to which the filter is applied is any.               *)
(***************************************************************************)
EXTENDS Naturals, FiniteSets

CONSTANTS None,
          Bits,       \* bits of a mark and of a status word
          Fields,     \* fields of a tuple that requests ask for
          Protocols,  \* protocols that requests ask for
          ZoneIds,    \* zones
          Entries,    \* the entries of the table
          MaxCriteria \* bound: criteria of a request

Families == {0, 4, 6}
Vals == {0, 1}
IpFields == {"src", "dst"}
PortFields == {"sport", "dport"}
IcmpFields == {"icmp_type", "icmp_code", "icmp_id"}
Icmpv6Fields == {"icmpv6_type", "icmpv6_code", "icmpv6_id"}
ProtoFields == PortFields \cup IcmpFields \cup Icmpv6Fields
TupleFields == IpFields \cup ProtoFields
Flags == Fields \cup {"proto", "zone", "unknown"}
Dirs == {"orig", "repl"}

\* An entry: its family and protocol, the other fields of the tuple of each
\* direction, the zone, mark, status.
Entry == [l3num : {4, 6}, proto : STRING, orig : [TupleFields -> Vals], repl : [TupleFields -> Vals],
          zone : [id : ZoneIds, dir : SUBSET Dirs], mark : SUBSET Bits, status : SUBSET Bits]

ASSUME ConstantsAssumption ==
  /\ Fields \subseteq TupleFields
  /\ ZoneIds \subseteq Nat /\ 0 \in ZoneIds
  /\ None \notin ZoneIds
  /\ MaxCriteria \in Nat
ASSUME EntriesAssumption == Entries \subseteq Entry

VARIABLES cda,   \* the request
          ct     \* the entry

vars == <<cda, ct>>

\* No attribute at all.  The tuples of a request have every field 0 and the same
\* protocol; origlacks and repllacks say whether a tuple is missing, or a field
\* that its flags ask for.
NoAttrs(flush, version, proto) ==
  [flush |-> flush, version |-> version, proto |-> proto,
   family |-> 0, zone |-> None, mark |-> None, markmask |-> None, status |-> None, statusmask |-> None,
   filter |-> FALSE, origflags |-> {}, replflags |-> {}, tuplezone |-> None,
   origlacks |-> "nothing", repllacks |-> "nothing"]

AskedField == 0

-----------------------------------------------------------------------------
(* From the request to the filter.                                         *)

\* ERR_PTR; it differs from every result.
Error == None

\* A flush has a family only if the message has a version.
Family(r) == IF r.flush /\ ~r.version THEN 0 ELSE r.family

ctnetlink_needs_filter(r) ==
  \/ Family(r) # 0 \/ r.mark # None \/ r.filter \/ r.status # None \/ r.zone # None

ctnetlink_filter_parse_mark(r) ==
  CASE r.mark # None -> [val |-> r.mark, mask |-> IF r.markmask = None THEN Bits ELSE r.markmask]
    [] r.mark = None /\ r.markmask # None -> Error
    [] OTHER -> [val |-> {}, mask |-> {}]

\* Without a mask the bits of the value are; a mask without bits is an error.
ctnetlink_filter_parse_status(r) ==
  LET mask == IF r.statusmask = None THEN r.status ELSE r.statusmask IN
  CASE r.status # None -> IF mask = {} THEN Error ELSE [val |-> r.status, mask |-> mask]
    [] r.status = None /\ r.statusmask # None -> Error
    [] OTHER -> [val |-> {}, mask |-> {}]

ctnetlink_parse_zone(attr) ==
  IF attr = None THEN [id |-> 0, orig |-> FALSE] ELSE [id |-> attr, orig |-> TRUE]

\* A tuple needs a family and what its flags ask for, and fields of the protocol
\* need the protocol.
ctnetlink_parse_tuple_filter(r, flags, lacks) ==
  /\ Family(r) \in {4, 6}
  /\ lacks = "field" => flags \cap (TupleFields \cup {"proto"}) = {}
  /\ flags \cap ProtoFields # {} => "proto" \in flags

\* The zone of a tuple is for requests that have no other zone.
TupleZone(r, flags) == "zone" \in flags /\ r.tuplezone # None
ctnetlink_parse_tuple_zone(r, zone, flags) ==
  IF TupleZone(r, flags)
    THEN IF zone.id # 0 THEN Error ELSE ctnetlink_parse_zone(r.tuplezone)
    ELSE zone

ctnetlink_parse_filter(r) == "unknown" \notin r.origflags \cup r.replflags

BadTuple(r, flags, lacks) ==
  flags # {} /\ (lacks = "tuple" \/ ~ctnetlink_parse_tuple_filter(r, flags, lacks))

Malformed(r, zone) ==
  \/ ~ctnetlink_parse_filter(r)
  \/ BadTuple(r, r.origflags, r.origlacks) \/ BadTuple(r, r.replflags, r.repllacks)
  \/ zone = Error

ctnetlink_alloc_filter(r) ==
  LET mark == ctnetlink_filter_parse_mark(r)
      status == ctnetlink_filter_parse_status(r)
      zone == ctnetlink_parse_zone(r.zone)
      zone1 == ctnetlink_parse_tuple_zone(r, zone, r.origflags)
      zone2 == IF zone1 = Error THEN Error ELSE ctnetlink_parse_tuple_zone(r, zone1, r.replflags)
      filter == [family |-> Family(r), mark |-> mark, status |-> status, zone |-> zone,
                 proto |-> r.proto, origflags |-> {}, replflags |-> {}]
  IN IF mark = Error \/ status = Error THEN Error
     ELSE IF ~r.filter THEN filter
     ELSE IF Malformed(r, zone2) THEN Error
     ELSE [filter EXCEPT !.zone = zone2, !.origflags = r.origflags, !.replflags = r.replflags]

-----------------------------------------------------------------------------
(* From the filter to the entries.                                         *)

\* An entry is turned away if the addresses of IPv4 differ, but if those of IPv6
\* are the same: !ipv6_addr_cmp.
SameAddress(family, a, b) == IF family = 4 THEN a = b ELSE a # b

\* The fields that are compared for an entry of protocol p.
Compared(p) == CASE p \in {"tcp", "udp"} -> PortFields
                 [] p = "icmp" -> IcmpFields
                 [] p = "icmpv6" -> Icmpv6Fields
                 [] OTHER -> {}

\* Fault: the fields of every protocol are compared as ports are.
MatchTuplePorts(filter, e, tuple, flags) ==
  /\ \A f \in flags \cap IpFields : SameAddress(filter.family, tuple[f], AskedField)
  /\ "proto" \in flags => e.proto = filter.proto
  /\ \A f \in flags \cap PortFields : tuple[f] = AskedField

ctnetlink_filter_match_tuple(filter, e, tuple, flags) ==
  /\ \A f \in flags \cap IpFields : SameAddress(filter.family, tuple[f], AskedField)
  /\ "proto" \in flags => e.proto = filter.proto
  /\ \A f \in flags \cap Compared(e.proto) : tuple[f] = AskedField

\* nf_ct_zone_id: an entry may be in its zone in one direction only.
ZoneId(e, dir) == IF dir \in e.zone.dir THEN e.zone.id ELSE 0

\* Fault: the zone is compared without asking whether the request has one.
FilterMatchAnyZone(filter, e) ==
  /\ filter.family # 0 => e.l3num = filter.family
  /\ ctnetlink_filter_match_tuple(filter, e, e.orig, filter.origflags)
  /\ ctnetlink_filter_match_tuple(filter, e, e.repl, filter.replflags)
  /\ ZoneId(e, "orig") = filter.zone.id
  /\ e.mark \cap filter.mark.mask = filter.mark.val
  /\ e.status \cap filter.status.mask = filter.status.val

ctnetlink_filter_match(filter, e) ==
  /\ filter.family # 0 => e.l3num = filter.family
  /\ ctnetlink_filter_match_tuple(filter, e, e.orig, filter.origflags)
  /\ ctnetlink_filter_match_tuple(filter, e, e.repl, filter.replflags)
  /\ filter.zone.orig => ZoneId(e, "orig") = filter.zone.id
  /\ e.mark \cap filter.mark.mask = filter.mark.val
  /\ e.status \cap filter.status.mask = filter.status.val

\* What ctnetlink_start, or ctnetlink_flush_conntrack, makes of a request: a flush
\* has no CTA_FILTER.
Rejected(r) ==
  ctnetlink_needs_filter(r) /\ ((r.flush /\ r.filter) \/ ctnetlink_alloc_filter(r) = Error)

\* What a dump then reports, or a flush deletes (but for entries that are
\* offloaded, see CtTable).
Reported(r, e) ==
  ~ctnetlink_needs_filter(r) \/ ctnetlink_filter_match(ctnetlink_alloc_filter(r), e)

-----------------------------------------------------------------------------
(* A client makes a request (external).                                    *)

\* Only a flush looks at the version.
Init == /\ \E p \in Protocols : cda \in {NoAttrs(FALSE, TRUE, p), NoAttrs(TRUE, TRUE, p), NoAttrs(TRUE, FALSE, p)}
        /\ ct \in Entries

AskFamily == /\ cda.family = 0
             /\ \E f \in Families \ {0} : cda' = [cda EXCEPT !.family = f]

AskZone == /\ cda.zone = None
           /\ \E z \in ZoneIds : cda' = [cda EXCEPT !.zone = z]

AskMark == /\ cda.mark = None
           /\ \E m \in SUBSET Bits : cda' = [cda EXCEPT !.mark = m]

AskMarkMask == /\ cda.markmask = None
               /\ \E m \in SUBSET Bits : cda' = [cda EXCEPT !.markmask = m]

AskStatus == /\ cda.status = None
             /\ \E s \in SUBSET Bits : cda' = [cda EXCEPT !.status = s]

AskStatusMask == /\ cda.statusmask = None
                 /\ \E s \in SUBSET Bits : cda' = [cda EXCEPT !.statusmask = s]

\* CTA_FILTER without flags.
AskFilter == ~cda.filter /\ cda' = [cda EXCEPT !.filter = TRUE]

\* A request that has a tuple is no flush.
AskField(f) == /\ f \notin cda.origflags /\ ~cda.flush
               /\ cda' = [cda EXCEPT !.filter = TRUE, !.origflags = @ \cup {f}]

AskReplField(f) == /\ f \notin cda.replflags /\ ~cda.flush
                   /\ cda' = [cda EXCEPT !.filter = TRUE, !.replflags = @ \cup {f}]

AskTupleZone == /\ cda.tuplezone = None /\ cda.origflags \cup cda.replflags # {}
                /\ \E z \in ZoneIds : cda' = [cda EXCEPT !.tuplezone = z]

Omit == \E l \in {"field", "tuple"} :
          \/ cda.origflags # {} /\ cda.origlacks = "nothing" /\ cda' = [cda EXCEPT !.origlacks = l]
          \/ cda.replflags # {} /\ cda.repllacks = "nothing" /\ cda' = [cda EXCEPT !.repllacks = l]

Ask == \/ AskFamily \/ AskZone \/ AskMark \/ AskMarkMask \/ AskStatus \/ AskStatusMask \/ AskFilter
       \/ \E f \in Flags : AskField(f) \/ AskReplField(f)
       \/ AskTupleZone \/ Omit

Given == {a \in {"zone", "mark", "markmask", "status", "statusmask", "tuplezone"} : cda[a] # None}
Criteria == Cardinality(Given) + Cardinality(cda.origflags) + Cardinality(cda.replflags)
              + Cardinality({a \in {"origlacks", "repllacks"} : cda[a] # "nothing"})
              + (IF cda.family = 0 THEN 0 ELSE 1)

Next == Criteria < MaxCriteria /\ Ask /\ UNCHANGED ct

Spec == Init /\ [][Next]_vars

-----------------------------------------------------------------------------
(* Properties.                                                             *)

\* The zone that a request names: that of a tuple replaces zone 0.
ZoneAsked(r) == IF TupleZone(r, r.origflags \cup r.replflags) THEN r.tuplezone ELSE r.zone

\* What a request asks for besides the other fields of tuples, criterion by
\* criterion; mask and value of a mark and of a status word are read as masks are.
Asked(r, e) ==
  /\ r.family # 0 /\ (r.flush => r.version) => e.l3num = r.family
  /\ "proto" \in r.origflags \cup r.replflags => e.proto = r.proto
  /\ ZoneAsked(r) # None => ZoneId(e, "orig") = ZoneAsked(r)
  /\ r.mark # None =>
       LET mask == IF r.markmask = None THEN Bits ELSE r.markmask IN
       r.mark \subseteq mask /\ \A b \in mask : b \in e.mark <=> b \in r.mark
  /\ r.status # None =>
       LET mask == IF r.statusmask = None THEN r.status ELSE r.statusmask IN
       r.status \subseteq mask /\ \A b \in mask : b \in e.status <=> b \in r.status

FieldsAsked(r, e) ==
  /\ \A f \in r.origflags \cap TupleFields : e.orig[f] = AskedField
  /\ \A f \in r.replflags \cap TupleFields : e.repl[f] = AskedField

\* Whether addresses of IPv6 are compared.
ByIPv6Address(r) == r.family = 6 /\ (r.origflags \cup r.replflags) \cap IpFields # {}

\* A request for a field that is not compared for the protocol it asks for, such
\* as the port of a protocol other than TCP and UDP.
Uncompared(r) == ~((r.origflags \cup r.replflags) \cap ProtoFields \subseteq Compared(r.proto))

\* A dump or flush whose request is accepted reports or deletes entries of the
\* family, protocol, zone, mark and status that were asked for and no other,
\* whatever attributes are combined: "zone filter for vgateway", zone 0 included.
\* No entry that fits all fields is left out, unless addresses of IPv6 are
\* compared (see SameAddress), and every entry that is reported fits all fields,
\* unless there is one that is not compared.
FilterExact ==
  ~Rejected(cda) =>
    /\ Reported(cda, ct) => Asked(cda, ct)
    /\ ~ByIPv6Address(cda) =>
         /\ Asked(cda, ct) /\ FieldsAsked(cda, ct) => Reported(cda, ct)
         /\ Reported(cda, ct) /\ ~Uncompared(cda) => FieldsAsked(cda, ct)

\* A request for zone 0 whose tuple names another zone is not rejected.
ZoneReplaced(r) == r.zone = 0 /\ ZoneAsked(r) # 0

Sound(r) == ~Rejected(r) /\ ~ZoneReplaced(r)

\* One more criterion never adds entries to a dump or a flush, except a mask,
\* which weakens a criterion that is there, and a zone that replaces zone 0.
NarrowingNeverWidens ==
  [][/\ Sound(cda) /\ Sound(cda')
     /\ cda'.markmask = cda.markmask /\ cda'.statusmask = cda.statusmask
     /\ Reported(cda', ct)
     => Reported(cda, ct)]_vars
=============================================================================
