----------------------------- MODULE H264Stream -----------------------------
(***************************************************************************)
(* read_nal_unit of h264_stream.cpp: what an h264_stream_t keeps of the    *)
(* NAL units it is given, and how the write_ functions would give it back. *)
(* An encoder (external) sends parameter sets, slices, user data and       *)
(* access unit delimiters; NAL units get lost on their way or lose their   *)
(* last byte, and the h264_stream_t may be replaced by a new one at any    *)
(* time, as decodeFrame does for every NAL unit. The bytes of a NAL unit   *)
(* and the RBSP in it are the subject of NalBytes.                         *)
(***************************************************************************)
EXTENDS H264Syntax

CONSTANTS
    SpsTold, PpsTold, SliceTold,  \* what the encoder is told to send (see Fill)
    SeiTold,
    SpsIds, PpsIds,
    MaxNals, MaxSets              \* bounds: NAL units sent, parameter sets only among the first

ASSUME SliceTypesAssumption == \A t \in SliceTold : t.type \in {1, 5} /\ t.bytes \in Nat
\* The tables start at 0.
ASSUME IdsAssumption == 0 \in SpsIds /\ 0 \in PpsIds

VARIABLES
    h,       \* the h264_stream_t
    rc,      \* whether the last read_nal_unit returned -1
    nal,     \* the NAL unit it was given
    encoder, \* the parameter sets the encoder has sent last
    nals     \* NAL units sent

vars == <<h, rc, nal, encoder, nals>>

None == [type |-> 0, ref |-> 0, e |-> NoFields, bits |-> <<>>, cut |-> FALSE]

\* The tables of parameter sets, the current ones, what was read last, the size
\* in h->info; pos and end are where the bit stream stood behind the structure
\* and behind what follows it.
\* mutant: malloc instead of calloc, and a table that is not empty
NotCleared ==
    [sps_table |-> [i \in SpsIds |-> Only(<<"log2_max_frame_num_minus4", 0>>, 2)],
     pps_table |-> [i \in PpsIds |-> NoFields],
     sps |-> 0, pps |-> 0, sh |-> NoFields, aud |-> NoFields, seis |-> NoFields,
     size |-> <<0, 0>>, pos |-> 0, end |-> 0]
h264_new ==
    [sps_table |-> [i \in SpsIds |-> NoFields], pps_table |-> [i \in PpsIds |-> NoFields],
     sps |-> 0, pps |-> 0, sh |-> NoFields, aud |-> NoFields, seis |-> NoFields,
     size |-> <<0, 0>>, pos |-> 0, end |-> 0]

Init ==
    /\ h = h264_new /\ rc = 0 /\ nal = None /\ nals = 0
    /\ encoder = [sps_table |-> [i \in SpsIds |-> NoFields], pps_table |-> [i \in PpsIds |-> NoFields]]

-----------------------------------------------------------------------------
(* The encoder *)

More(present) == Only(<<"_more_rbsp_data_present", 0>>, present)

Unit(type, ref, e, bits) ==
    [type |-> type, ref |-> ref, e |-> e, bits |-> WriteTrailing(bits), cut |-> FALSE]

\* The unit with the fields told, if they are legal.
Sent(type, ref, Elements(_), told, known) ==
    LET e == Fill(Elements, told, known)
    IN  {Unit(type, ref, f, Write(Elements(f), f)) : f \in {g \in {e} : Legal(Elements(g), g, known)}}

SpsNals ==
    {n \in UNION {Sent(7, 1, LAMBDA e : seq_parameter_set("sent", e), told, NoFields) : told \in SpsTold} :
        F(n.e, "seq_parameter_set_id") \in SpsIds}
PpsNals ==
    {n \in UNION {Sent(8, 1, LAMBDA e : pic_parameter_set("sent", e), t[1], More(t[2])) : t \in PpsTold \X {0, 1}} :
        F(n.e, "pic_parameter_set_id") \in PpsIds}

\* User data begin with a UUID. The reader takes its sixteen bytes whatever the size
\* says, so that shorter ones overrun its buffer (h264_sei.cpp:63-71): left out.
HasUuid(e) == \A k \in DOMAIN e : k[1] = "payloadSize" /\ At(e, "payloadType", k[2]) = 5 => e[k] >= 16
SeiNals ==
    {m \in UNION {Sent(6, 0, LAMBDA e : sei_rbsp("sent", e, n), SeiTold, NoFields) : n \in {1, 2}} : HasUuid(m.e)}
AudNals == Sent(9, 0, access_unit_delimiter, <<>>, NoFields)

\* Slice data, from the next byte on if they are CABAC.
SliceData(cabac, header, bytes) ==
    (IF cabac THEN [i \in 1 .. (8 - (Len(header) % 8)) % 8 |-> 1] ELSE <<>>)
    \o [i \in 1 .. 8 * bytes |-> i % 2]

\* The parameter sets a slice with these fields uses.
PpsOf(x, e) == x.pps_table[F(e, "pic_parameter_set_id")]
SpsOf(x, e) == x.sps_table[F(PpsOf(x, e), "seq_parameter_set_id")]

SliceNal(t) ==
    LET Elements(e) == slice_header("sent", e, t.type, t.ref, encoder.sps_table, encoder.pps_table)
        e      == Fill(Elements, t.told, NoFields)
        header == Write(Elements(e), e)
        cabac  == F(PpsOf(encoder, e), "entropy_coding_mode_flag") = 1
    IN  Unit(t.type, t.ref, e, header \o SliceData(cabac, header, t.bytes))

SliceNals ==
    {n \in {SliceNal(t) : t \in SliceTold} :
        /\ F(n.e, "pic_parameter_set_id") \in PpsIds /\ PpsOf(encoder, n.e) # NoFields
        /\ F(PpsOf(encoder, n.e), "seq_parameter_set_id") \in SpsIds /\ SpsOf(encoder, n.e) # NoFields
        /\ Legal(slice_header("sent", n.e, n.type, n.ref, encoder.sps_table, encoder.pps_table), n.e, NoFields)}

\* Sending a parameter set replaces the one before with its number.
Sends(n) ==
    /\ nals < (IF n.type \in {7, 8} THEN MaxSets ELSE MaxNals) /\ nals' = nals + 1
    /\ encoder' = [encoder EXCEPT
          !.sps_table = IF n.type = 7 THEN [@ EXCEPT ![F(n.e, "seq_parameter_set_id")] = n.e] ELSE @,
          !.pps_table = IF n.type = 8 THEN [@ EXCEPT ![F(n.e, "pic_parameter_set_id")] = n.e] ELSE @]

-----------------------------------------------------------------------------
(* read_nal_unit *)

\* NAL and VCL parameters share one hrd: with both, what was read last stands for both.
Stored(e) ==
    LET Over(k) == <<k[1], k[2] + Second>>
        Under   == {<<k[1], k[2] - Second>> : k \in {j \in DOMAIN e : j[2] >= Second}}
    IN  IF F(e, "nal_hrd_parameters_present_flag") # 0
        THEN [k \in DOMAIN e \cup Under |-> IF Over(k) \in DOMAIN e THEN e[Over(k)] ELSE e[k]]
        ELSE e

read_seq_parameter_set_rbsp(bits) ==
    LET r  == Read(LAMBDA e : seq_parameter_set("read", e), bits, NoFields)
        id == F(r.e, "seq_parameter_set_id")
    IN  [h EXCEPT !.sps = id, !.sps_table[id] = Stored(r.e), !.size = Size(Stored(r.e)),
                  !.pos = r.pos, !.end = BehindTrailing(r.pos)]

read_pic_parameter_set_rbsp(bits) ==
    LET more == IF more_rbsp_data_in_pps(h.sps_table[h.sps]) THEN 1 ELSE 0
        r    == Read(LAMBDA e : pic_parameter_set("read", e), bits, More(more))
        id   == F(r.e, "pic_parameter_set_id")
    IN  [h EXCEPT !.pps = id, !.pps_table[id] = r.e, !.pos = r.pos, !.end = BehindTrailing(r.pos)]

\* Slice data are not kept: trailing bits are read in their place, and with CABAC
\* words of two bytes up to the end.
read_slice_layer_rbsp(bits, type, ref) ==
    LET r   == Read(LAMBDA e : slice_header("read", e, type, ref, h.sps_table, h.pps_table), bits, NoFields)
        pps == PpsOf(h, r.e)
        end == BehindTrailing(r.pos)
    IN  [h EXCEPT !.sh = r.e, !.pps = F(r.e, "pic_parameter_set_id"), !.sps = F(pps, "seq_parameter_set_id"),
                  !.pos = r.pos,
                  !.end = IF F(pps, "entropy_coding_mode_flag") = 1 /\ Len(bits) > end
                          THEN end + 16 * ((Len(bits) - end + 15) \div 16) ELSE end]

read_sei_rbsp(bits) ==
    LET r == Read(LAMBDA e : sei_rbsp("read", e, 0), bits, NoFields)
    IN  [h EXCEPT !.seis = [k \in {j \in DOMAIN r.e : j[1] # "end_bits"} |-> r.e[k]], !.pos = r.pos, !.end = BehindTrailing(r.pos)]

read_access_unit_delimiter_rbsp(bits) ==
    LET r == Read(access_unit_delimiter, bits, NoFields)
    IN  [h EXCEPT !.aud = r.e, !.pos = r.pos, !.end = BehindTrailing(r.pos)]

\* What is left in h is kept, even where the result is -1.
read_nal_unit(n) ==
    /\ nal' = n
    /\ h' = CASE n.type = 7 -> read_seq_parameter_set_rbsp(n.bits)
              [] n.type = 8 -> read_pic_parameter_set_rbsp(n.bits)
              [] n.type \in {1, 5} -> read_slice_layer_rbsp(n.bits, n.type, n.ref)
              [] n.type = 6 -> read_sei_rbsp(n.bits)
              [] n.type = 9 -> read_access_unit_delimiter_rbsp(n.bits)
    /\ rc' = IF bs_overrun(n.bits, h'.end) THEN -1 ELSE 0

\* The network
Cut(n) == [n EXCEPT !.bits = SubSeq(n.bits, 1, Len(n.bits) - 8), !.cut = TRUE]

Arrives(n) == Sends(n) /\ read_nal_unit(n)
IsCut(n)   == Sends(n) /\ n.type \in {7, 8} /\ read_nal_unit(Cut(n))
IsLost(n)  == Sends(n) /\ n.type \in {7, 8} /\ nal' = None /\ UNCHANGED <<h, rc>>

NewStream  == h' = h264_new /\ h # h264_new /\ nal' = None /\ rc' = 0 /\ UNCHANGED <<encoder, nals>>

Next ==
    \/ \E n \in SpsNals \cup PpsNals \cup SliceNals \cup SeiNals \cup AudNals :
          Arrives(n) \/ IsCut(n) \/ IsLost(n)
    \/ NewStream

Spec == Init /\ [][Next]_vars

-----------------------------------------------------------------------------
(* The write_ functions, on what is in h *)

write_seq_parameter_set_rbsp(sps) ==
    LET e == Before(Only(<<"reserved_zero_2bits", 0>>, 0), sps) IN Write(seq_parameter_set("written", e), e)
\* mutant: the last part is written whether it was there or not
WritesMore(pps) == LET e == Before(More(1), pps) IN Write(pic_parameter_set("written", e), e)
write_pic_parameter_set_rbsp(pps) == Write(pic_parameter_set("written", pps), pps)
write_slice_header(sh, type, ref) ==
    Write(slice_header("written", sh, type, ref, h.sps_table, h.pps_table), sh)
write_sei_rbsp(seis, n) == Write(sei_rbsp("written", seis, n), seis)
write_access_unit_delimiter_rbsp(aud) == Write(access_unit_delimiter(aud), aud)

\* The size decodeFrame takes from a sequence parameter set.
SizeTold(sps) == <<16 * (F(sps, "pic_width_in_mbs_minus1") + 1), 16 * (F(sps, "pic_height_in_map_units_minus1") + 1)>>

-----------------------------------------------------------------------------
(* Properties *)

Whole   == nal.type # 0 /\ ~nal.cut
Sps     == h.sps_table[h.sps]
Pps     == h.pps_table[h.pps]
IsSlice == nal.type \in {1, 5}
InStep  == PpsOf(h, nal.e) = PpsOf(encoder, nal.e) /\ SpsOf(h, nal.e) = SpsOf(encoder, nal.e)

Kept == CASE nal.type = 7 -> Sps
          [] nal.type = 8 -> Pps
          [] IsSlice      -> h.sh
          [] nal.type = 6 -> h.seis
          [] nal.type = 9 -> h.aud

UnknownProfile(e) == F(e, "profile_idc") \in HighProfiles("sent") \ HighProfiles("read")
\* The parser takes the last part of the PPS for there when it is not, or not there.
WrongGuess(e) == ~(F(e, "_more_rbsp_data_present") = 1 <=> more_rbsp_data_in_pps(Sps))
\* Both NAL and VCL parameters are there, and a VCL field differs from the NAL one.
TwoHrds(e) ==
    /\ F(e, "nal_hrd_parameters_present_flag") # 0
    /\ \E k \in DOMAIN e :
          /\ k[2] >= Second
          /\ LET nal_k == <<k[1], k[2] - Second>> IN nal_k \notin DOMAIN e \/ e[nal_k] # e[k]
\* The flags of four more scaling lists, which only the writer leaves out.
FourLists(e) == F(e, "chroma_format_idc") = 3 /\ F(e, "seq_scaling_matrix_present_flag") # 0
HasLists(e) == \E k \in DOMAIN e : k[1] = "pic_scaling_list_present_flag" /\ e[k] # 0

Weighted(pps, t) == \/ F(pps, "weighted_pred_flag") = 1 /\ t \in {P, SP}
                    \/ F(pps, "weighted_bipred_idc") = 1 /\ t = B
MoreWeights(e, sps, pps) ==
    /\ Weighted(pps, SliceType(e))
    /\ \/ HasChroma("sent", sps) # HasChroma("read", sps)
       \/ /\ F(e, "num_ref_idx_active_override_flag") = 0
          /\ \/ F(pps, "num_ref_idx_l0_active_minus1") > 0
             \/ SliceType(e) = B /\ F(pps, "num_ref_idx_l1_active_minus1") > 0
OtherCycle(sps, pps) ==
    /\ F(pps, "num_slice_groups_minus1") > 0 /\ F(pps, "slice_group_map_type") \in 3 .. 5
    /\ CycleBits("sent", sps, pps) # CycleBits("read", sps, pps)

\* Payload sizes and types are read as they are written unless they are multiples
\* of 255.
FfCoded == nal.type = 6 => \A n \in 0 .. 520 : ReadFf(WriteFf(n), 1) = n <=> n = 0 \/ n % 255 # 0

\* What was sent is what h holds after read_nal_unit, if the parameter sets of
\* a slice have arrived, except in these cases, where it never is: a profile with
\* chroma fields the parser does not know; HRD parameters for NAL and VCL that
\* differ; the last part of a PPS where the profile of the current SPS made the
\* parser guess wrong, or with scaling lists; more weights than the slice header
\* itself tells of; a slice group cycle of another width; user data not alone.
ParsedAsSent ==
  /\ FfCoded
  /\ Whole /\ (IsSlice => InStep) =>
       (Kept = nal.e <=>
          ~ CASE nal.type = 7 -> UnknownProfile(nal.e) \/ TwoHrds(nal.e)
              [] nal.type = 8 -> WrongGuess(nal.e) \/ HasLists(nal.e)
              [] IsSlice      -> MoreWeights(nal.e, Sps, Pps) \/ OtherCycle(Sps, Pps)
              [] nal.type = 6 -> <<"payloadType", Second>> \in DOMAIN nal.e
              [] nal.type = 9 -> FALSE)

\* The write_ functions give back the RBSP, or the slice header, that h was
\* read from, except where they leave something out.
WrittenAsRead ==
    LET order == /\ F(Pps, OrderFlag("read")) = 1 /\ F(h.sh, "field_pic_flag") = 0
                 /\ \/ F(Sps, "pic_order_cnt_type") = 0
                    \/ F(Sps, "pic_order_cnt_type") = 1 /\ F(Sps, "delta_pic_order_always_zero_flag") = 0
    IN  Whole =>
          CASE nal.type = 7 /\ ~UnknownProfile(nal.e) ->
                  WriteTrailing(write_seq_parameter_set_rbsp(Sps)) = nal.bits
                  <=> ~TwoHrds(nal.e) /\ ~FourLists(nal.e) /\ F(nal.e, "reserved_zero_2bits") = 0
            [] nal.type = 8 /\ ~HasLists(Pps) ->
                  WriteTrailing(write_pic_parameter_set_rbsp(Pps)) = nal.bits
                  <=> F(Pps, OrderFlag("read")) = 0 /\ ~WrongGuess(nal.e)
            [] IsSlice -> LET bits == write_slice_header(h.sh, nal.type, nal.ref)
                          IN  Len(bits) = h.pos /\ (h.pos <= Len(nal.bits) => SubSeq(nal.bits, 1, h.pos) = bits)
                              <=> /\ SliceType(h.sh) \in {I, SI} /\ nal.ref = 0 /\ ~order
                                  /\ F(Sps, "separate_colour_plane_flag") = 0
            [] nal.type = 9 -> WriteTrailing(write_access_unit_delimiter_rbsp(h.aud)) = nal.bits
            [] OTHER -> TRUE

\* read_nal_unit returns -1 for every parameter set that lost its last byte and
\* for none that arrived whole and was guessed right; for user data alone always.
ResultTells ==
    CASE \/ nal.type = 7 /\ ~UnknownProfile(nal.e)
         \/ nal.type = 8 /\ ~WrongGuess(nal.e) /\ ~HasLists(nal.e)
         \/ nal.type = 9 -> rc = -1 <=> nal.cut
      [] nal.type = 6 /\ F(nal.e, "payloadType") = 5 /\ <<"payloadType", Second>> \notin DOMAIN nal.e -> rc = -1
      [] OTHER -> TRUE

\* decodeFrame reads every NAL unit with a new h264_stream_t: of frame_num it sees
\* the first four bits, with separate colour planes two of these are others.
FrameNumSeen ==
    IsSlice /\ h.sps_table = h264_new.sps_table /\ h.pps_table = h264_new.pps_table =>
       LET sps == SpsOf(encoder, nal.e)
       IN  F(sps, "separate_colour_plane_flag") = 0 =>
              F(h.sh, "frame_num") = F(nal.e, "frame_num") \div 2 ^ F(sps, "log2_max_frame_num_minus4")

\* h->info has the size of the pictures. What decodeFrame tells the decoder is that
\* size only where they are not cropped; of pictures that may be coded as fields it is
\* half the height.
SizeRight ==
    Whole /\ nal.type = 7 /\ ~UnknownProfile(nal.e) =>
       LET uncropped == \A side \in {"frame_crop_left_offset", "frame_crop_right_offset",
                                     "frame_crop_top_offset", "frame_crop_bottom_offset"} : F(nal.e, side) = 0
           told      == SizeTold(Sps)
       IN  /\ h.size = Size(nal.e)
           /\ F(nal.e, "frame_mbs_only_flag") = 1 => (told = h.size <=> uncropped)
           /\ F(nal.e, "frame_mbs_only_flag") = 0 /\ uncropped => h.size = <<told[1], 2 * told[2]>>
=============================================================================
