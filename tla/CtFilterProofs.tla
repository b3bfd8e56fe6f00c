--------------------------- MODULE CtFilterProofs ---------------------------
(***************************************************************************)
(* Proofs about CtFilter: for every set of bits, fields, zones and entries *)
(* and for requests of any length, an accepted request selects what it     *)
(* asks for, and more criteria never select more.                          *)
(***************************************************************************)
EXTENDS CtFilter, TLAPS

\* What requests have in common: without CTA_FILTER, and in a flush, there are no
\* flags.
Request(r) ==
  /\ r.family \in Families /\ r.flush \in BOOLEAN /\ r.version \in BOOLEAN
  /\ r.flush => r.origflags = {} /\ r.replflags = {}
  /\ ~r.filter => r.origflags = {} /\ r.replflags = {}

Attributes == {"family", "zone", "mark", "markmask", "status", "statusmask",
               "filter", "origflags", "replflags", "tuplezone", "origlacks", "repllacks",
               "flush", "version", "proto"}

IInv == /\ cda = [a \in Attributes |-> cda[a]]
        /\ Request(cda)

-----------------------------------------------------------------------------
(* The criteria of a request, as ctnetlink_filter_match applies them.      *)

WantTuple(r, e, tuple, flags) ==
  /\ \A f \in flags \cap IpFields : SameAddress(Family(r), tuple[f], AskedField)
  /\ "proto" \in flags => e.proto = r.proto
  /\ \A f \in flags \cap Compared(e.proto) : tuple[f] = AskedField

WantTuples(r, e) == WantTuple(r, e, e.orig, r.origflags) /\ WantTuple(r, e, e.repl, r.replflags)

WantZone(r, e) == ZoneAsked(r) # None => ZoneId(e, "orig") = ZoneAsked(r)

MarkMask(r) == IF r.markmask = None THEN Bits ELSE r.markmask
StatusMask(r) == IF r.statusmask = None THEN r.status ELSE r.statusmask

WantMark(r, e) == r.mark # None => e.mark \cap MarkMask(r) = r.mark
WantStatus(r, e) == r.status # None => e.status \cap StatusMask(r) = r.status

Want(r, e) ==
  /\ Family(r) # 0 => e.l3num = Family(r)
  /\ WantTuples(r, e) /\ WantZone(r, e) /\ WantMark(r, e) /\ WantStatus(r, e)

\* A request with flags that is accepted has a family, and names the protocol
\* with the fields of a protocol.
LEMMA FlagsNeedFamily ==
  ASSUME NEW r, Request(r), ~Rejected(r)
  PROVE  /\ r.origflags \cup r.replflags # {} => Family(r) = r.family /\ r.family # 0
         /\ r.origflags \cap ProtoFields # {} => "proto" \in r.origflags
         /\ r.replflags \cap ProtoFields # {} => "proto" \in r.replflags
<1>1. CASE r.origflags = {} /\ r.replflags = {}
  BY <1>1
<1>2. CASE r.origflags # {} \/ r.replflags # {}
  <2>1. r.filter /\ ~r.flush
    BY <1>2 DEF Request
  <2>2. ctnetlink_alloc_filter(r) # Error
    BY <2>1 DEF Rejected, ctnetlink_needs_filter
  <2>3. ~BadTuple(r, r.origflags, r.origlacks) /\ ~BadTuple(r, r.replflags, r.repllacks)
    BY <2>1, <2>2 DEF ctnetlink_alloc_filter, Malformed
  <2>4. Family(r) = r.family
    BY <2>1 DEF Family
  <2> QED
    BY <1>2, <2>3, <2>4 DEF BadTuple, ctnetlink_parse_tuple_filter
<1> QED
  BY <1>1, <1>2

\* Masks that are given without a value are rejected, or there is no filter.
LEMMA MarkParsed ==
  ASSUME NEW r, NEW e, ctnetlink_filter_parse_mark(r) # Error
  PROVE  e.mark \cap ctnetlink_filter_parse_mark(r).mask = ctnetlink_filter_parse_mark(r).val
           <=> WantMark(r, e)
<1>1. CASE r.mark # None
  <2>1. ctnetlink_filter_parse_mark(r) = [val |-> r.mark, mask |-> MarkMask(r)]
    BY <1>1 DEF ctnetlink_filter_parse_mark, MarkMask
  <2> QED
    BY <1>1, <2>1 DEF WantMark
<1>2. CASE r.mark = None
  <2>1. ctnetlink_filter_parse_mark(r) = [val |-> {}, mask |-> {}]
    BY <1>2 DEF ctnetlink_filter_parse_mark
  <2> QED
    BY <1>2, <2>1 DEF WantMark
<1> QED
  BY <1>1, <1>2

LEMMA StatusParsed ==
  ASSUME NEW r, NEW e, ctnetlink_filter_parse_status(r) # Error
  PROVE  e.status \cap ctnetlink_filter_parse_status(r).mask
           = ctnetlink_filter_parse_status(r).val <=> WantStatus(r, e)
<1>1. CASE r.status # None
  <2>1. ctnetlink_filter_parse_status(r) = [val |-> r.status, mask |-> StatusMask(r)]
    BY <1>1 DEF ctnetlink_filter_parse_status, StatusMask
  <2> QED
    BY <1>1, <2>1 DEF WantStatus
<1>2. CASE r.status = None
  <2>1. ctnetlink_filter_parse_status(r) = [val |-> {}, mask |-> {}]
    BY <1>2 DEF ctnetlink_filter_parse_status
  <2> QED
    BY <1>2, <2>1 DEF WantStatus
<1> QED
  BY <1>1, <1>2

\* The zones that ctnetlink_alloc_filter goes through.
Zone0(r) == ctnetlink_parse_zone(r.zone)
Zone1(r) == ctnetlink_parse_tuple_zone(r, Zone0(r), r.origflags)
Zone2(r) == IF Zone1(r) = Error THEN Error ELSE ctnetlink_parse_tuple_zone(r, Zone1(r), r.replflags)

LEMMA ZoneParsed ==
  ASSUME NEW r, NEW e, Zone2(r) # Error
  PROVE  /\ (Zone2(r).orig => ZoneId(e, "orig") = Zone2(r).id) <=> WantZone(r, e)
         /\ TupleZone(r, r.origflags \cup r.replflags) => r.zone \in {None, 0}
<1> DEFINE tz == [id |-> r.tuplezone, orig |-> TRUE]
           O == TupleZone(r, r.origflags)
           R == TupleZone(r, r.replflags)
<1>1. TupleZone(r, r.origflags \cup r.replflags) <=> O \/ R
  BY DEF TupleZone
<1>2. Zone1(r) # Error
  BY DEF Zone2
<1>3. Zone2(r) = ctnetlink_parse_tuple_zone(r, Zone1(r), r.replflags)
  BY <1>2 DEF Zone2
<1>4. O => Zone1(r) = tz /\ Zone0(r).id = 0
  BY <1>2 DEF Zone1, ctnetlink_parse_tuple_zone, ctnetlink_parse_zone, TupleZone
<1>5. ~O => Zone1(r) = Zone0(r)
  BY DEF Zone1, ctnetlink_parse_tuple_zone
<1>6. R => Zone2(r) = tz /\ Zone1(r).id = 0
  BY <1>3 DEF ctnetlink_parse_tuple_zone, ctnetlink_parse_zone, TupleZone
<1>7. ~R => Zone2(r) = Zone1(r)
  BY <1>3 DEF ctnetlink_parse_tuple_zone
<1>8. r.zone # None => Zone0(r) = [id |-> r.zone, orig |-> TRUE]
  BY DEF Zone0, ctnetlink_parse_zone
<1>9. r.zone = None => Zone0(r) = [id |-> 0, orig |-> FALSE]
  BY DEF Zone0, ctnetlink_parse_zone
<1>10. CASE O \/ R
  <2>1. Zone2(r).id = r.tuplezone /\ Zone2(r).orig
    BY <1>10, <1>4, <1>6, <1>7
  <2>2. r.zone # None => r.zone = 0
    BY <1>10, <1>4, <1>5, <1>6, <1>8
  <2>3. ZoneAsked(r) = r.tuplezone /\ r.tuplezone # None
    BY <1>1, <1>10 DEF ZoneAsked, TupleZone
  <2> QED
    BY <2>1, <2>2, <2>3 DEF WantZone
<1>11. CASE ~O /\ ~R
  <2>1. Zone2(r) = Zone0(r)
    BY <1>11, <1>5, <1>7
  <2>2. ZoneAsked(r) = r.zone
    BY <1>1, <1>11 DEF ZoneAsked
  <2> QED
    BY <1>1, <1>11, <2>1, <2>2, <1>8, <1>9 DEF WantZone
<1> QED
  BY <1>10, <1>11

\* The filter that is made of an accepted request.
LEMMA FilterMade ==
  ASSUME NEW r, Request(r), ctnetlink_alloc_filter(r) # Error
  PROVE  /\ ctnetlink_filter_parse_mark(r) # Error
         /\ ctnetlink_filter_parse_status(r) # Error
         /\ r.filter => Zone2(r) # Error
         /\ ctnetlink_alloc_filter(r) =
              [family |-> Family(r), mark |-> ctnetlink_filter_parse_mark(r),
               status |-> ctnetlink_filter_parse_status(r),
               zone |-> IF r.filter THEN Zone2(r) ELSE Zone0(r),
               proto |-> r.proto, origflags |-> r.origflags, replflags |-> r.replflags]
<1>1. ctnetlink_filter_parse_mark(r) # Error /\ ctnetlink_filter_parse_status(r) # Error
  BY DEF ctnetlink_alloc_filter
<1>2. r.filter => ~Malformed(r, Zone2(r))
  BY <1>1 DEF ctnetlink_alloc_filter, Zone0, Zone1, Zone2
<1>3. r.filter => Zone2(r) # Error
  BY <1>2 DEF Malformed
<1>4. CASE r.filter
  BY <1>1, <1>2, <1>3, <1>4 DEF ctnetlink_alloc_filter, Zone0, Zone1, Zone2
<1>5. CASE ~r.filter
  BY <1>1, <1>3, <1>5 DEF ctnetlink_alloc_filter, Zone0, Request
<1> QED
  BY <1>4, <1>5

\* An accepted request reports an entry if and only if all its criteria hold.
LEMMA ReportedIsWanted ==
  ASSUME NEW r, NEW e, Request(r), ~Rejected(r)
  PROVE  Reported(r, e) <=> Want(r, e)
<1>1. CASE ~ctnetlink_needs_filter(r)
  <2>1. r.origflags = {} /\ r.replflags = {}
    BY <1>1 DEF ctnetlink_needs_filter, Request
  <2>2. WantTuples(r, e)
    BY <2>1 DEF WantTuples, WantTuple
  <2> QED
    BY <1>1, <2>1, <2>2 DEF ctnetlink_needs_filter, Reported, Want, WantZone, WantMark, WantStatus,
                            ZoneAsked, TupleZone
<1>2. CASE ctnetlink_needs_filter(r)
  <2> DEFINE f == ctnetlink_alloc_filter(r)
  <2>1. f # Error
    BY <1>2 DEF Rejected
  <2>2. ctnetlink_filter_parse_mark(r) # Error /\ ctnetlink_filter_parse_status(r) # Error
    BY <2>1, FilterMade
  <2>3. /\ f.family = Family(r) /\ f.origflags = r.origflags /\ f.replflags = r.replflags
        /\ f.proto = r.proto
        /\ f.mark = ctnetlink_filter_parse_mark(r)
        /\ f.status = ctnetlink_filter_parse_status(r)
        /\ f.zone = IF r.filter THEN Zone2(r) ELSE Zone0(r)
    <3> HIDE DEF f
    <3>1. f = [family |-> Family(r), mark |-> ctnetlink_filter_parse_mark(r),
               status |-> ctnetlink_filter_parse_status(r),
               zone |-> IF r.filter THEN Zone2(r) ELSE Zone0(r),
               proto |-> r.proto, origflags |-> r.origflags, replflags |-> r.replflags]
      BY <2>1, FilterMade DEF f
    <3> QED
      BY <3>1
  <2>4. (f.zone.orig => ZoneId(e, "orig") = f.zone.id) <=> WantZone(r, e)
    <3>1. CASE r.filter
      <4>1. Zone2(r) # Error
        BY <2>1, <3>1, FilterMade
      <4>2. f.zone = Zone2(r)
        BY <2>3, <3>1
      <4> QED
        BY <4>1, <4>2, ZoneParsed
    <3>2. CASE ~r.filter
      <4>1. f.zone = Zone0(r)
        BY <2>3, <3>2
      <4>2. ~TupleZone(r, r.origflags \cup r.replflags)
        BY <3>2 DEF Request, TupleZone
      <4>3. (Zone0(r).orig => ZoneId(e, "orig") = Zone0(r).id) <=> WantZone(r, e)
        BY <4>2 DEF Zone0, ctnetlink_parse_zone, WantZone, ZoneAsked
      <4> QED
        BY <4>1, <4>3
    <3> QED
      BY <3>1, <3>2
  <2>5. e.mark \cap f.mark.mask = f.mark.val <=> WantMark(r, e)
    BY <2>2, <2>3, MarkParsed
  <2>6. e.status \cap f.status.mask = f.status.val <=> WantStatus(r, e)
    BY <2>2, <2>3, StatusParsed
  <2>7. Reported(r, e) <=> ctnetlink_filter_match(f, e)
    BY <1>2 DEF Reported
  <2> HIDE DEF f
  <2> QED
    BY <2>3, <2>4, <2>5, <2>6, <2>7 DEF ctnetlink_filter_match, ctnetlink_filter_match_tuple,
                                            Want, WantTuples, WantTuple
<1> QED
  BY <1>1, <1>2

\* A zone other than 0 and the zone of a tuple exclude each other.
LEMMA TupleZoneAlone ==
  ASSUME NEW r, Request(r), ~Rejected(r), TupleZone(r, r.origflags \cup r.replflags)
  PROVE  r.zone \in {None, 0}
<1>1. r.filter /\ ~r.flush
  BY DEF Request, TupleZone
<1>2. ctnetlink_alloc_filter(r) # Error
  BY <1>1 DEF Rejected, ctnetlink_needs_filter
<1>3. Zone2(r) # Error
  BY <1>1, <1>2, FilterMade
<1> QED
  BY <1>3, ZoneParsed

\* Value and mask, read as masks are.
LEMMA Masked ==
  ASSUME NEW w, NEW mask, NEW val
  PROVE  w \cap mask = val <=> val \subseteq mask /\ \A b \in mask : b \in w <=> b \in val
  OBVIOUS

\* The criteria besides the fields of tuples are what the request asks for.
LEMMA WantedIsAsked ==
  ASSUME NEW r, NEW e, Request(r), ~Rejected(r)
  PROVE  Want(r, e) <=> Asked(r, e) /\ WantTuples(r, e)
<1>1. WantMark(r, e) <=>
        (r.mark # None =>
           r.mark \subseteq MarkMask(r) /\ \A b \in MarkMask(r) : b \in e.mark <=> b \in r.mark)
  BY Masked DEF WantMark
<1>2. WantStatus(r, e) <=>
        (r.status # None =>
           r.status \subseteq StatusMask(r) /\ \A b \in StatusMask(r) : b \in e.status <=> b \in r.status)
  BY Masked DEF WantStatus
<1>3. (Family(r) # 0 => e.l3num = Family(r)) <=> (r.family # 0 /\ (r.flush => r.version) => e.l3num = r.family)
  BY DEF Family, Request
<1>4. WantTuples(r, e) => ("proto" \in r.origflags \cup r.replflags => e.proto = r.proto)
  BY DEF WantTuples, WantTuple
<1> QED
  BY <1>1, <1>2, <1>3, <1>4 DEF Want, Asked, WantZone, MarkMask, StatusMask

\* Unless addresses of IPv6 are compared, what fits the fields that were asked for
\* is wanted, and what is wanted fits them if all are compared.
LEMMA TuplesAreFields ==
  ASSUME NEW r, NEW e, Request(r), ~Rejected(r), ~ByIPv6Address(r)
  PROVE  /\ Asked(r, e) /\ FieldsAsked(r, e) => WantTuples(r, e)
         /\ WantTuples(r, e) /\ ~Uncompared(r) => FieldsAsked(r, e)
<1>0. /\ TupleFields = IpFields \cup ProtoFields
      /\ \A p : Compared(p) \subseteq ProtoFields
  BY DEF TupleFields, Compared, ProtoFields
<1>1. ASSUME NEW t, NEW flags \in {r.origflags, r.replflags}
      PROVE  /\ Asked(r, e) /\ (\A f \in flags \cap TupleFields : t[f] = AskedField) => WantTuple(r, e, t, flags)
             /\ WantTuple(r, e, t, flags) /\ ~Uncompared(r)
                  => \A f \in flags \cap TupleFields : t[f] = AskedField
  <2>1. \A f \in flags \cap IpFields : SameAddress(Family(r), t[f], AskedField) <=> t[f] = AskedField
    <3>1. CASE flags \cap IpFields = {}
      BY <3>1
    <3>2. CASE flags \cap IpFields # {}
      <4>1. Family(r) = r.family /\ r.family # 0
        BY <3>2, FlagsNeedFamily
      <4>2. r.family = 4
        BY <3>2, <4>1 DEF ByIPv6Address, Request, Families
      <4> QED
        BY <4>1, <4>2 DEF SameAddress
    <3> QED BY <3>1, <3>2
  <2>2. ASSUME Asked(r, e), \A f \in flags \cap TupleFields : t[f] = AskedField
        PROVE  WantTuple(r, e, t, flags)
    BY <1>0, <2>1, <2>2 DEF WantTuple, Asked
  <2>3. ASSUME WantTuple(r, e, t, flags), ~Uncompared(r), NEW f \in flags \cap TupleFields
        PROVE  t[f] = AskedField
    <3>1. CASE f \in IpFields
      BY <2>1, <2>3, <3>1 DEF WantTuple
    <3>2. CASE f \in ProtoFields
      <4>1. "proto" \in flags
        BY <3>2, FlagsNeedFamily
      <4>2. f \in Compared(e.proto)
        BY <2>3, <3>2, <4>1 DEF WantTuple, Uncompared
      <4> QED
        BY <2>3, <4>2 DEF WantTuple
    <3> QED BY <1>0, <3>1, <3>2
  <2> QED BY <2>2, <2>3
<1> QED
  BY <1>1 DEF WantTuples, FieldsAsked

-----------------------------------------------------------------------------
(* The requests that clients make.                                         *)

LEMMA IInvInit == Init => IInv
<1> SUFFICES ASSUME Init PROVE IInv
  OBVIOUS
<1>0. PICK flush \in BOOLEAN, version \in BOOLEAN, p \in Protocols : cda = NoAttrs(flush, version, p)
  BY DEF Init
<1>1. cda = [a \in Attributes |-> cda[a]]
  BY <1>0 DEF NoAttrs, Attributes
<1>2. Request(cda)
  <2>1. /\ cda.family = 0 /\ cda.flush = flush /\ cda.version = version
        /\ cda.origflags = {} /\ cda.replflags = {}
    BY <1>0 DEF NoAttrs
  <2> QED BY <2>1 DEF Request, Families
<1> QED
  BY <1>1, <1>2 DEF IInv

LEMMA IInvNext == IInv /\ [Next]_vars => IInv'
<1> SUFFICES ASSUME IInv, [Next]_vars PROVE IInv'
  OBVIOUS
<1> USE DEF IInv, Attributes, Request, Families
<1>1. CASE AskFamily \/ AskFilter \/ Omit
  BY <1>1 DEF AskFamily, AskFilter, Omit
<1>2. CASE AskZone \/ AskTupleZone
  BY <1>2 DEF AskZone, AskTupleZone
<1>3. CASE AskMark \/ AskMarkMask
  BY <1>3 DEF AskMark, AskMarkMask
<1>4. CASE AskStatus \/ AskStatusMask
  BY <1>4 DEF AskStatus, AskStatusMask
<1>5. ASSUME NEW f \in Flags, AskField(f) \/ AskReplField(f) PROVE IInv'
  <2>1. /\ cda' = [a \in Attributes |-> cda'[a]]
        /\ \A a \in {"family", "flush", "version"} : cda'[a] = cda[a]
    BY <1>5 DEF AskField, AskReplField
  <2>2. cda'.filter /\ ~cda'.flush
    BY <1>5 DEF AskField, AskReplField
  <2> QED
    BY <2>1, <2>2
<1>6. CASE UNCHANGED vars
  BY <1>6 DEF vars
<1> QED
  BY <1>1, <1>2, <1>3, <1>4, <1>5, <1>6 DEF Next, Ask

\* A dump or a flush whose request is accepted selects entries of the family,
\* protocol, zone, mark and status that were asked for, leaves none out that fits
\* all fields, and none in that does not fit a field that is compared, whatever the
\* sets of bits, fields, zones, protocols and entries and however many criteria
\* are combined (the fields: unless they are addresses of IPv6).
THEOREM Exactness == Spec => []FilterExact
<1>1. IInv => FilterExact
  <2> SUFFICES ASSUME IInv, ~Rejected(cda) PROVE FilterExact
    BY DEF FilterExact
  <2>1. Request(cda)
    BY DEF IInv
  <2>2. Reported(cda, ct) <=> Asked(cda, ct) /\ WantTuples(cda, ct)
    BY <2>1, ReportedIsWanted, WantedIsAsked
  <2>3. ASSUME ~ByIPv6Address(cda)
        PROVE  /\ Asked(cda, ct) /\ FieldsAsked(cda, ct) => WantTuples(cda, ct)
               /\ WantTuples(cda, ct) /\ ~Uncompared(cda) => FieldsAsked(cda, ct)
    BY <2>1, <2>3, TuplesAreFields
  <2> QED
    BY <2>2, <2>3 DEF FilterExact
<1> QED
  BY IInvInit, IInvNext, <1>1, PTL DEF Spec

\* A criterion that is added to a request never adds entries to its dump or its
\* flush, whether or not addresses of IPv6 are compared.
THEOREM Narrowing == Spec => NarrowingNeverWidens
<1> DEFINE Narrower == /\ Sound(cda) /\ Sound(cda')
                       /\ cda'.markmask = cda.markmask /\ cda'.statusmask = cda.statusmask
                       /\ Reported(cda', ct)
                       => Reported(cda, ct)
<1>1. IInv /\ IInv' /\ [Next]_vars => [Narrower]_vars
  <2> SUFFICES ASSUME IInv, IInv', Next, Sound(cda), Sound(cda'),
                      cda'.markmask = cda.markmask, cda'.statusmask = cda.statusmask,
                      Reported(cda', ct)
               PROVE  Reported(cda, ct)
    OBVIOUS
  <2>1. Want(cda', ct)
    BY ReportedIsWanted DEF IInv, Sound
  <2> SUFFICES Want(cda, ct)
    BY ReportedIsWanted DEF IInv, Sound
  <2>2. cda.origflags \cup cda.replflags # {} => cda.family # 0
    BY FlagsNeedFamily DEF IInv, Sound
  <2>z. /\ TupleZone(cda', cda'.origflags \cup cda'.replflags) => cda'.zone \in {None, 0}
        /\ ~ZoneReplaced(cda')
    BY TupleZoneAlone DEF IInv, Sound
  <2> USE DEF IInv, Attributes, Want, WantTuples, WantTuple, WantMark, WantStatus, MarkMask,
              StatusMask, Family
  <2>3. CASE AskFamily
    <3>1. /\ cda.origflags = {} /\ cda.replflags = {} /\ cda.family = 0
          /\ \A a \in Attributes \ {"family"} : cda'[a] = cda[a]
      BY <2>3, <2>2 DEF AskFamily
    <3>2. WantTuples(cda, ct)
      BY <3>1
    <3>3. WantZone(cda, ct)
      BY <2>1, <3>1 DEF WantZone, ZoneAsked, TupleZone
    <3> QED
      BY <2>1, <3>1, <3>2, <3>3
  <2>4. CASE AskZone \/ AskTupleZone \/ AskFilter \/ Omit
    <3>1. /\ \A a \in {"family", "flush", "version", "proto", "mark", "markmask", "status", "statusmask",
                        "origflags", "replflags"} : cda'[a] = cda[a]
          /\ cda.zone # None => cda'.zone = cda.zone
          /\ cda.tuplezone # None => cda'.tuplezone = cda.tuplezone
      BY <2>4 DEF AskZone, AskTupleZone, AskFilter, Omit
    <3>2. WantZone(cda, ct)
      BY <2>1, <2>z, <3>1 DEF WantZone, ZoneAsked, TupleZone, ZoneReplaced
    <3> QED
      BY <2>1, <3>1, <3>2
  <2>5. CASE AskMark \/ AskMarkMask
    <3>1. /\ \A a \in Attributes \ {"mark", "markmask"} : cda'[a] = cda[a]
          /\ cda.mark # None => cda'.mark = cda.mark
      BY <2>5 DEF AskMark, AskMarkMask
    <3>2. WantZone(cda, ct)
      BY <2>1, <3>1 DEF WantZone, ZoneAsked, TupleZone
    <3> QED
      BY <2>1, <3>1, <3>2
  <2>6. CASE AskStatus \/ AskStatusMask
    <3>1. /\ \A a \in Attributes \ {"status", "statusmask"} : cda'[a] = cda[a]
          /\ cda.status # None => cda'.status = cda.status
      BY <2>6 DEF AskStatus, AskStatusMask
    <3>2. WantZone(cda, ct)
      BY <2>1, <3>1 DEF WantZone, ZoneAsked, TupleZone
    <3> QED
      BY <2>1, <3>1, <3>2
  <2>7. ASSUME NEW f \in Flags, AskField(f) \/ AskReplField(f) PROVE Want(cda, ct)
    <3>1. /\ \A a \in {"family", "flush", "version", "proto", "zone", "mark", "markmask", "status",
                        "statusmask", "tuplezone"} : cda'[a] = cda[a]
          /\ cda.origflags \subseteq cda'.origflags /\ cda.replflags \subseteq cda'.replflags
      <4>1. CASE AskField(f) BY <4>1 DEF AskField
      <4>2. CASE AskReplField(f) BY <4>2 DEF AskReplField
      <4> QED BY <2>7, <4>1, <4>2
    <3>2. WantTuples(cda, ct)
      BY <2>1, <3>1
    <3>3. WantZone(cda, ct)
      BY <2>1, <2>z, <3>1 DEF WantZone, ZoneAsked, TupleZone, ZoneReplaced
    <3> QED
      BY <2>1, <3>1, <3>2, <3>3
  <2> QED
    BY <2>3, <2>4, <2>5, <2>6, <2>7 DEF Next, Ask
<1> QED
  BY IInvInit, IInvNext, <1>1, PTL DEF Spec, NarrowingNeverWidens
=============================================================================
