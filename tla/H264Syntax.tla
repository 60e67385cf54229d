----------------------------- MODULE H264Syntax -----------------------------
(***************************************************************************)
(* The syntax structures of h264_stream.cpp. A structure is the sequence   *)
(* of its elements <<code, width, name, index>>; which elements there are  *)
(* depends on the values of those before them. The fields of a C structure *)
(* are a function from <<name, index>> to the values that were read; a     *)
(* field that was not read is 0, as memset left it.                        *)
(*                                                                         *)
(* Three sides use a structure: it was "sent" by an encoder (external,     *)
(* after ITU-T H.264), is "read" by the read_ functions and "written" by   *)
(* the write_ functions. Where they differ, the definitions say so.        *)
(***************************************************************************)
EXTENDS BitStream, FiniteSets

CONSTANT MaxElements   \* bound: elements of a structure
ASSUME MaxElementsAssumption == MaxElements \in Nat

NoFields == [k \in {} |-> 0]
\* One field, and fields in front of others with the same names.
Only(k, v) == [j \in {k} |-> v]
Before(f, g) == [k \in DOMAIN f \cup DOMAIN g |-> IF k \in DOMAIN f THEN f[k] ELSE g[k]]
At(e, name, i) == IF <<name, i>> \in DOMAIN e THEN e[<<name, i>>] ELSE 0
F(e, name)     == At(e, name, 0)

u(n, names)   == [k \in DOMAIN names |-> <<"u", n, names[k], 0>>]
ue(names)     == [k \in DOMAIN names |-> <<"ue", 0, names[k], 0>>]
se(names)     == [k \in DOMAIN names |-> <<"se", 0, names[k], 0>>]
When(c, s)    == IF c THEN s ELSE <<>>
\* A flag, and what is there if it is set.
OptAt(e, flag, i, s) == u(1, <<flag>>) \o When(At(e, flag, i) # 0, s)
Opt(e, flag, s)      == OptAt(e, flag, 0, s)
\* The turns of a loop from index b on.
Indexed(t, i) == [j \in DOMAIN t |-> <<t[j][1], t[j][2], t[j][3], i>>]
Each(b, n, Body(_)) == Joined([k \in 1 .. n |-> Indexed(Body(b + k - 1), b + k - 1)])

\* The second of two loops over the same fields.
Second == 1000

(***************************************************************************)
(* Sequence parameter set. hrd is one structure, filled by the NAL and     *)
(* then by the VCL parameters.                                             *)
(***************************************************************************)
HighProfiles(side) ==
    {100, 110, 122, 144} \cup IF side = "sent" THEN {244, 44, 83, 86, 118, 128} ELSE {}

hrd_parameters(e, b) ==
    Each(b, 1, LAMBDA i : ue(<<"cpb_cnt_minus1">>) \o u(4, <<"bit_rate_scale", "cpb_size_scale">>))
    \o Each(b, At(e, "cpb_cnt_minus1", b) + 1,
            LAMBDA i : ue(<<"bit_rate_value_minus1", "cpb_size_value_minus1">>) \o u(1, <<"cbr_flag">>))
    \o Each(b, 1, LAMBDA i : u(5, <<"initial_cpb_removal_delay_length_minus1",
                 "cpb_removal_delay_length_minus1", "dpb_output_delay_length_minus1", "time_offset_length">>))

vui_parameters(e) ==
    Opt(e, "aspect_ratio_info_present_flag",
        u(8, <<"aspect_ratio_idc">>)
        \o When(F(e, "aspect_ratio_idc") = 255, u(16, <<"sar_width", "sar_height">>)))
    \o Opt(e, "overscan_info_present_flag", u(1, <<"overscan_appropriate_flag">>))
    \o Opt(e, "video_signal_type_present_flag",
           u(3, <<"video_format">>) \o u(1, <<"video_full_range_flag">>)
           \o Opt(e, "colour_description_present_flag",
                  u(8, <<"colour_primaries", "transfer_characteristics", "matrix_coefficients">>)))
    \o Opt(e, "chroma_loc_info_present_flag",
           ue(<<"chroma_sample_loc_type_top_field", "chroma_sample_loc_type_bottom_field">>))
    \o Opt(e, "timing_info_present_flag",
           u(32, <<"num_units_in_tick", "time_scale">>) \o u(1, <<"fixed_frame_rate_flag">>))
    \o Opt(e, "nal_hrd_parameters_present_flag", hrd_parameters(e, 0))
    \o Opt(e, "vcl_hrd_parameters_present_flag", hrd_parameters(e, Second))
    \o When(F(e, "nal_hrd_parameters_present_flag") + F(e, "vcl_hrd_parameters_present_flag") > 0,
            u(1, <<"low_delay_hrd_flag">>))
    \o u(1, <<"pic_struct_present_flag">>)
    \o Opt(e, "bitstream_restriction_flag",
           u(1, <<"motion_vectors_over_pic_boundaries_flag">>)
           \o ue(<<"max_bytes_per_pic_denom", "max_bits_per_mb_denom", "log2_max_mv_length_horizontal",
                   "log2_max_mv_length_vertical", "num_reorder_frames", "max_dec_frame_buffering">>))

\* No SPS sends a scaling list (bound). The flags of twelve lists are twelve fields
\* here; the code has an array of eight (h264_stream.h:62) and puts the last four,
\* zero without lists, into the lists behind it, which nothing reads.
seq_parameter_set(side, e) ==
    u(8, <<"profile_idc">>)
    \o u(1, <<"constraint_set0_flag", "constraint_set1_flag", "constraint_set2_flag",
              "constraint_set3_flag", "constraint_set4_flag", "constraint_set5_flag">>)
    \o u(2, <<"reserved_zero_2bits">>) \o u(8, <<"level_idc">>) \o ue(<<"seq_parameter_set_id">>)
    \o When(F(e, "profile_idc") \in HighProfiles(side),
            ue(<<"chroma_format_idc">>)
            \o When(F(e, "chroma_format_idc") = 3, u(1, <<"separate_colour_plane_flag">>))
            \o ue(<<"bit_depth_luma_minus8", "bit_depth_chroma_minus8">>)
            \o u(1, <<"qpprime_y_zero_transform_bypass_flag">>)
            \o Opt(e, "seq_scaling_matrix_present_flag",
                   Each(0, IF side # "written" /\ F(e, "chroma_format_idc") = 3 THEN 12 ELSE 8,
                        LAMBDA i : u(1, <<"seq_scaling_list_present_flag">>))))
    \o ue(<<"log2_max_frame_num_minus4", "pic_order_cnt_type">>)
    \o When(F(e, "pic_order_cnt_type") = 0, ue(<<"log2_max_pic_order_cnt_lsb_minus4">>))
    \o When(F(e, "pic_order_cnt_type") = 1,
            u(1, <<"delta_pic_order_always_zero_flag">>)
            \o se(<<"offset_for_non_ref_pic", "offset_for_top_to_bottom_field">>)
            \o ue(<<"num_ref_frames_in_pic_order_cnt_cycle">>)
            \o Each(0, F(e, "num_ref_frames_in_pic_order_cnt_cycle"),
                    LAMBDA i : se(<<"offset_for_ref_frame">>)))
    \o ue(<<"max_num_ref_frames">>) \o u(1, <<"gaps_in_frame_num_value_allowed_flag">>)
    \o ue(<<"pic_width_in_mbs_minus1", "pic_height_in_map_units_minus1">>)
    \o u(1, <<"frame_mbs_only_flag">>)
    \o When(F(e, "frame_mbs_only_flag") = 0, u(1, <<"mb_adaptive_frame_field_flag">>))
    \o u(1, <<"direct_8x8_inference_flag">>)
    \o Opt(e, "frame_cropping_flag",
           ue(<<"frame_crop_left_offset", "frame_crop_right_offset",
                "frame_crop_top_offset", "frame_crop_bottom_offset">>))
    \o Opt(e, "vui_parameters_present_flag", vui_parameters(e))

\* chroma_format_idc of a set that was read, or of an entry never filled.
ChromaFormat(sps) ==
    IF sps = NoFields THEN 0
    ELSE IF <<"chroma_format_idc", 0>> \in DOMAIN sps THEN F(sps, "chroma_format_idc") ELSE 1

\* mutant: the cropping is forgotten
Uncropped(sps) ==
    << 16 * (F(sps, "pic_width_in_mbs_minus1") + 1),
       (2 - F(sps, "frame_mbs_only_flag")) * 16 * (F(sps, "pic_height_in_map_units_minus1") + 1) >>
\* h->info->width and height.
Size(sps) ==
    LET fields == 2 - F(sps, "frame_mbs_only_flag")
        unitX  == IF ChromaFormat(sps) \in {1, 2} THEN 2 ELSE 1
        unitY  == IF ChromaFormat(sps) = 1 THEN 2 * fields ELSE fields
    IN  << 16 * (F(sps, "pic_width_in_mbs_minus1") + 1)
             - unitX * (F(sps, "frame_crop_left_offset") + F(sps, "frame_crop_right_offset")),
           fields * 16 * (F(sps, "pic_height_in_map_units_minus1") + 1)
             - unitY * (F(sps, "frame_crop_top_offset") + F(sps, "frame_crop_bottom_offset")) >>

(***************************************************************************)
(* Picture parameter set. _more_rbsp_data_present, a field that is not in  *)
(* the stream, says whether its last part is there.                        *)
(***************************************************************************)
\* The number of bits that tell x values apart.
intlog2(x) == Cardinality({i \in 0 .. 30 : 2 ^ i < x})

\* more_rbsp_data_in_pps, which asks the current sequence parameter set.
more_rbsp_data_in_pps(sps) ==
    ~ /\ F(sps, "profile_idc") \in {66, 77, 88}
      /\ \E k \in {"constraint_set0_flag", "constraint_set1_flag", "constraint_set2_flag"} : F(sps, k) = 1

\* The flag the slice header asks for, too, has another name where it is written.
OrderFlag(side) ==
    IF side = "written" THEN "pic_order_present_flag" ELSE "bottom_field_pic_order_in_frame_present_flag"

slice_group_map(e) ==
    LET groups == F(e, "num_slice_groups_minus1")
        type   == F(e, "slice_group_map_type")
    IN  ue(<<"slice_group_map_type">>)
        \o CASE type = 0 -> Each(0, groups + 1, LAMBDA i : ue(<<"run_length_minus1">>))
             [] type = 2 -> Each(0, groups, LAMBDA i : ue(<<"top_left", "bottom_right">>))
             [] type \in 3 .. 5 -> u(1, <<"slice_group_change_direction_flag">>)
                                   \o ue(<<"slice_group_change_rate_minus1">>)
             [] type = 6 -> ue(<<"pic_size_in_map_units_minus1">>)
                            \o Each(0, F(e, "pic_size_in_map_units_minus1") + 1,
                                    LAMBDA i : u(intlog2(groups + 1), <<"slice_group_id">>))
             [] OTHER -> <<>>

\* A scaling list of a PPS is one delta_scale of -8, the default list (bound). It is
\* not read: its place is NULL (h264_stream.h:183-185), and the reader returns. The
\* writer has no such test and reads from NULL (h264_stream.cpp:1553): written is
\* only what has no list, see HasLists.
scaling_list(side) == When(side = "sent", se(<<"delta_scale">>))

pic_parameter_set(side, e) ==
    ue(<<"pic_parameter_set_id", "seq_parameter_set_id">>)
    \o u(1, <<"entropy_coding_mode_flag", OrderFlag(side)>>)
    \o ue(<<"num_slice_groups_minus1">>)
    \o When(F(e, "num_slice_groups_minus1") > 0, slice_group_map(e))
    \o ue(<<"num_ref_idx_l0_active_minus1", "num_ref_idx_l1_active_minus1">>)
    \o u(1, <<"weighted_pred_flag">>) \o u(2, <<"weighted_bipred_idc">>)
    \o se(<<"pic_init_qp_minus26", "pic_init_qs_minus26", "chroma_qp_index_offset">>)
    \o u(1, <<"deblocking_filter_control_present_flag", "constrained_intra_pred_flag",
              "redundant_pic_cnt_present_flag">>)
    \o When(F(e, "_more_rbsp_data_present") = 1,
            u(1, <<"transform_8x8_mode_flag">>)
            \o Opt(e, "pic_scaling_matrix_present_flag",
                   Each(0, 6 + 2 * F(e, "transform_8x8_mode_flag"),
                        LAMBDA i : OptAt(e, "pic_scaling_list_present_flag", i, scaling_list(side))))
            \o se(<<"second_chroma_qp_index_offset">>))

(***************************************************************************)
(* Slice header                                                            *)
(***************************************************************************)
P  == 0
B  == 1
I  == 2
SP == 3
SI == 4
SliceType(e) == LET t == F(e, "slice_type") IN IF t >= 5 THEN t - 5 ELSE t

\* The turns of a do-while loop that reads operations until the last one or the
\* end of the buffer.
Operations(e, name, b, last) ==
    LET m == Cardinality({i \in b .. b + MaxElements - 1 : <<name, i>> \in DOMAIN e})
    IN  IF m = 0 THEN 1
        ELSE IF At(e, name, b + m - 1) = last \/ F(e, "eof") = 1 THEN m ELSE m + 1

modification(e, flag, b) ==
    Opt(e, flag,
        Each(b, Operations(e, "modification_of_pic_nums_idc", b, 3),
             LAMBDA i : LET idc == At(e, "modification_of_pic_nums_idc", i)
                        IN  ue(<<"modification_of_pic_nums_idc">>)
                            \o When(idc \in {0, 1}, ue(<<"abs_diff_pic_num_minus1">>))
                            \o When(idc = 2, ue(<<"long_term_pic_num">>))))

ref_pic_list_modification(side, e) ==
    When(side # "written",
         When(SliceType(e) \notin {I, SI}, modification(e, "ref_pic_list_modification_flag_l0", 0))
         \o When(SliceType(e) = B, modification(e, "ref_pic_list_modification_flag_l1", Second)))

\* Whether there are chroma weights; ChromaArrayType is set only for high profiles.
HasChroma(side, sps) ==
    CASE side = "sent" -> F(sps, "separate_colour_plane_flag") = 0 /\ ChromaFormat(sps) # 0
      [] side = "read" -> /\ F(sps, "profile_idc") \in HighProfiles("read")
                          /\ F(sps, "separate_colour_plane_flag") = 0 /\ ChromaFormat(sps) # 0
      [] side = "written" -> ChromaFormat(sps) # 0

\* How many pictures have weights: the picture parameter set has the number for
\* slices that do not override it, but it is not asked when reading.
Refs(side, e, pps, name) ==
    IF side = "written" \/ (side = "sent" /\ F(e, "num_ref_idx_active_override_flag") = 0)
    THEN F(pps, name) ELSE F(e, name)

weights(e, chroma, b, n) ==
    Each(b, n, LAMBDA i :
        OptAt(e, "luma_weight_flag", i, se(<<"luma_weight", "luma_offset">>))
        \o When(chroma, OptAt(e, "chroma_weight_flag", i,
                              se(<<"chroma_weight_0", "chroma_offset_0", "chroma_weight_1", "chroma_offset_1">>))))

pred_weight_table(side, e, sps, pps) ==
    LET chroma == HasChroma(side, sps)
    IN  ue(<<"luma_log2_weight_denom">>) \o When(chroma, ue(<<"chroma_log2_weight_denom">>))
        \o weights(e, chroma, 0, Refs(side, e, pps, "num_ref_idx_l0_active_minus1") + 1)
        \o When(SliceType(e) = B,
                weights(e, chroma, Second, Refs(side, e, pps, "num_ref_idx_l1_active_minus1") + 1))

dec_ref_pic_marking(side, e, type) ==
    When(side # "written",
         IF type = 5 THEN u(1, <<"no_output_of_prior_pics_flag", "long_term_reference_flag">>)
         ELSE Opt(e, "adaptive_ref_pic_marking_mode_flag",
                  Each(0, Operations(e, "memory_management_control_operation", 0, 0), LAMBDA i :
                      LET op == At(e, "memory_management_control_operation", i)
                      IN  ue(<<"memory_management_control_operation">>)
                          \o When(op \in {1, 3}, ue(<<"difference_of_pic_nums_minus1">>))
                          \o When(op = 2, ue(<<"long_term_pic_num">>))
                          \o When(op \in {3, 6}, ue(<<"long_term_frame_idx">>))
                          \o When(op = 4, ue(<<"max_long_term_frame_idx_plus1">>)))))

\* The width of slice_group_change_cycle. The code takes the number of map units
\* from a field that is read for another map type only.
CycleBits(side, sps, pps) ==
    LET rate  == F(pps, "slice_group_change_rate_minus1") + 1
        units == (F(sps, "pic_width_in_mbs_minus1") + 1) * (F(sps, "pic_height_in_map_units_minus1") + 1)
    IN  IF side = "sent" THEN intlog2((units + rate - 1) \div rate + 1)
        ELSE intlog2(F(pps, "pic_size_in_map_units_minus1") + rate)

slice_header(side, e, type, ref, sps_table, pps_table) ==
    LET pps   == pps_table[F(e, "pic_parameter_set_id")]
        sps   == sps_table[F(pps, "seq_parameter_set_id")]
        t     == SliceType(e)
        order == F(pps, OrderFlag(side)) = 1 /\ F(e, "field_pic_flag") = 0
    IN  ue(<<"first_mb_in_slice", "slice_type", "pic_parameter_set_id">>)
        \o When(side # "written" /\ F(sps, "separate_colour_plane_flag") = 1, u(2, <<"colour_plane_id">>))
        \o u(F(sps, "log2_max_frame_num_minus4") + 4, <<"frame_num">>)
        \o When(F(sps, "frame_mbs_only_flag") = 0, Opt(e, "field_pic_flag", u(1, <<"bottom_field_flag">>)))
        \o When(type = 5, ue(<<"idr_pic_id">>))
        \o When(F(sps, "pic_order_cnt_type") = 0,
                u(F(sps, "log2_max_pic_order_cnt_lsb_minus4") + 4, <<"pic_order_cnt_lsb">>)
                \o When(order, se(<<"delta_pic_order_cnt_bottom">>)))
        \o When(F(sps, "pic_order_cnt_type") = 1 /\ F(sps, "delta_pic_order_always_zero_flag") = 0,
                se(<<"delta_pic_order_cnt_0">>) \o When(order, se(<<"delta_pic_order_cnt_1">>)))
        \o When(F(pps, "redundant_pic_cnt_present_flag") = 1, ue(<<"redundant_pic_cnt">>))
        \o When(t = B, u(1, <<"direct_spatial_mv_pred_flag">>))
        \o When(t \in {P, SP, B},
                Opt(e, "num_ref_idx_active_override_flag",
                    ue(<<"num_ref_idx_l0_active_minus1">>)
                    \o When(t = B, ue(<<"num_ref_idx_l1_active_minus1">>))))
        \o ref_pic_list_modification(side, e)
        \o When(\/ F(pps, "weighted_pred_flag") = 1 /\ t \in {P, SP}
                \/ F(pps, "weighted_bipred_idc") = 1 /\ t = B,
                pred_weight_table(side, e, sps, pps))
        \o When(ref # 0, dec_ref_pic_marking(side, e, type))
        \o When(F(pps, "entropy_coding_mode_flag") = 1 /\ t \notin {I, SI}, ue(<<"cabac_init_idc">>))
        \o se(<<"slice_qp_delta">>)
        \o When(t \in {SP, SI}, When(t = SP, u(1, <<"sp_for_switch_flag">>)) \o se(<<"slice_qs_delta">>))
        \o When(F(pps, "deblocking_filter_control_present_flag") = 1,
                ue(<<"disable_deblocking_filter_idc">>)
                \o When(F(e, "disable_deblocking_filter_idc") # 1,
                        se(<<"slice_alpha_c0_offset_div2", "slice_beta_offset_div2">>)))
        \o When(F(pps, "num_slice_groups_minus1") > 0 /\ F(pps, "slice_group_map_type") \in 3 .. 5,
                u(CycleBits(side, sps, pps), <<"slice_group_change_cycle">>))

(***************************************************************************)
(* Supplemental enhancement information: messages of user data (bound: of  *)
(* sizes from 16, see HasUuid, to 254, see FfCoded). read_sei_end_bits     *)
(* reads trailing bits although a message has none, so a whole byte of     *)
(* what comes next.                                                        *)
(***************************************************************************)
sei_message(side, e, b) ==
    Each(b, 1, LAMBDA i : u(8, <<"payloadType", "payloadSize">>))
    \o When(side # "read" \/ At(e, "payloadType", b) = 5,
            Each(b, At(e, "payloadSize", b), LAMBDA i : u(8, <<"payload">>)))
    \o When(side = "read", Each(b, 1, LAMBDA i : u(8, <<"end_bits">>)))

\* A reader goes on while there seems to be more, a writer knows the number.
Messages(side, e, n) ==
    LET m == Cardinality({i \in 0 .. MaxElements : <<"payloadType", i * Second>> \in DOMAIN e})
    IN  IF side # "read" THEN n ELSE IF m = 0 \/ F(e, "more") = 1 THEN m + 1 ELSE m

sei_rbsp(side, e, n) ==
    Joined([k \in 1 .. Messages(side, e, n) |-> sei_message(side, e, (k - 1) * Second)])

access_unit_delimiter(e) == u(3, <<"primary_pic_type">>)

\* _write_ff_coded_number and _read_ff_coded_number, the latter on what the
\* former wrote and then bytes below 255.
WriteFf(n) ==
    [i \in 1 .. IF n = 0 THEN 1 ELSE (n - 1) \div 255 + 1 |->
        IF i * 255 < n THEN 255 ELSE n - (i - 1) * 255]
ReadFf(bytes, next) ==
    LET s[i \in 0 .. Len(bytes)] == IF i = 0 THEN 0 ELSE s[i - 1] + bytes[i]
    IN  s[Len(bytes)] + IF bytes[Len(bytes)] = 255 THEN next ELSE 0

-----------------------------------------------------------------------------
(* Walking through a structure, element by element. *)

Key(el) == <<el[3], el[4]>>

Walk(Elements(_), Step(_, _), start) ==
    LET s[k \in 0 .. MaxElements] ==
          IF k = 0 THEN start
          ELSE LET t == s[k - 1]
               IN  IF t.done THEN t
                   ELSE LET es == Elements(t.e)
                        IN  IF k > Len(es) THEN [t EXCEPT !.done = TRUE] ELSE Step(t, es[k])
    IN  s[MaxElements]

\* What the reader can ask of the stream: bs_eof and more_rbsp_data.
State(bits, pos) ==
    [k \in {<<"eof", 0>>, <<"more", 0>>} |->
        IF k[1] = "eof" THEN IF bs_eof(bits, pos) THEN 1 ELSE 0
        ELSE IF bs_eof(bits, pos) \/ bs_read_u1(bits, pos) = 1 THEN 0 ELSE 1]

Fields(e) == [k \in DOMAIN e \ {<<"eof", 0>>, <<"more", 0>>} |-> e[k]]

\* The fields of a structure read from bits, given those known before, and the
\* position behind it.
Read(Elements(_), bits, known) ==
    LET Step(t, el) ==
          LET pos == Behind(el[1], el[2], bits, t.pos)
              new == Only(Key(el), ReadCode(el[1], el[2], bits, t.pos))
          IN  [t EXCEPT !.e = Before(State(bits, pos), Before(new, @)), !.pos = pos]
        s == Walk(Elements, Step, [e |-> known, pos |-> 0, done |-> FALSE])
    IN  [e |-> Fields(s.e), pos |-> s.pos]

\* The fields an encoder sends that is told some of them (each as a sequence,
\* one value for each turn of a loop): the other flags are 0, the other values 1.
Fill(Elements(_), told, known) ==
    LET Value(el) ==
          IF el[3] \in DOMAIN told
          THEN LET n == (el[4] % Second) + (el[4] \div Second) + 1
               IN  told[el[3]][IF n <= Len(told[el[3]]) THEN n ELSE Len(told[el[3]])]
          ELSE IF el[1] = "u" /\ el[2] = 1 THEN 0 ELSE IF el[1] = "se" THEN -1 ELSE 1
        Step(t, el) == [t EXCEPT !.e = Before(Only(Key(el), Value(el)), @)]
    IN  Walk(Elements, Step, [e |-> known, done |-> FALSE]).e

\* The bits of a structure with these fields.
Write(elements, e) ==
    Joined([k \in DOMAIN elements |->
            WriteCode(elements[k][1], elements[k][2], At(e, elements[k][3], elements[k][4]))])

\* The fields that may be negative.
Signed ==
    {"offset_for_non_ref_pic", "offset_for_top_to_bottom_field", "offset_for_ref_frame",
     "pic_init_qp_minus26", "pic_init_qs_minus26", "chroma_qp_index_offset", "delta_scale",
     "second_chroma_qp_index_offset", "delta_pic_order_cnt_bottom", "delta_pic_order_cnt_0",
     "delta_pic_order_cnt_1", "luma_weight", "luma_offset", "chroma_weight_0", "chroma_offset_0",
     "chroma_weight_1", "chroma_offset_1", "slice_qp_delta", "slice_qs_delta",
     "slice_alpha_c0_offset_div2", "slice_beta_offset_div2"}

\* What an encoder may send: these elements, their fields and no others besides those
\* known before, each with a value its code has a word for.
Legal(elements, e, known) ==
    /\ Len(elements) < MaxElements
    /\ DOMAIN e = {Key(elements[k]) : k \in DOMAIN elements} \cup DOMAIN known
    /\ \A k \in DOMAIN known : e[k] = known[k]
    /\ e \in [DOMAIN e -> Int]
    /\ \A k \in DOMAIN e : e[k] < 0 => k[1] \in Signed
    /\ \A k \in DOMAIN elements : Fits(elements[k][1], elements[k][2], e[Key(elements[k])])
=============================================================================
