------------------------------- MODULE MCH264 -------------------------------
(***************************************************************************)
(* H264Stream for TLC: parameter sets and slices such that every branch of *)
(* the syntax is taken by one of them.                                     *)
(***************************************************************************)
EXTENDS H264Stream, TLC

Flat    == [reserved_zero_2bits |-> <<0>>, frame_mbs_only_flag |-> <<1>>, pic_order_cnt_type |-> <<0>>]
Sps0    == Flat @@ [seq_parameter_set_id |-> <<0>>]
Sps1    == Flat @@ [seq_parameter_set_id |-> <<1>>]
Crop    == [frame_cropping_flag |-> <<1>>]
Fields1 == [frame_mbs_only_flag |-> <<0>>, mb_adaptive_frame_field_flag |-> <<1>>]
Vui     == [vui_parameters_present_flag |-> <<1>>]
Hrd     == [nal_hrd_parameters_present_flag |-> <<1>>, vcl_hrd_parameters_present_flag |-> <<1>>]

MCSpsTold ==
    { [profile_idc |-> <<66>>, constraint_set1_flag |-> <<1>>] @@ Crop @@ Sps0,
      [profile_idc |-> <<77>>, log2_max_frame_num_minus4 |-> <<2>>, constraint_set5_flag |-> <<1>>]
         @@ Fields1 @@ Sps0,
      [profile_idc |-> <<77>>, pic_order_cnt_type |-> <<1>>, num_ref_frames_in_pic_order_cnt_cycle |-> <<2>>]
         @@ Sps0,
      [profile_idc |-> <<100>>, seq_scaling_matrix_present_flag |-> <<1>>, pic_order_cnt_type |-> <<2>>,
       timing_info_present_flag |-> <<1>>, aspect_ratio_info_present_flag |-> <<1>>, aspect_ratio_idc |-> <<255>>,
       overscan_info_present_flag |-> <<1>>, bitstream_restriction_flag |-> <<1>>] @@ Hrd @@ Vui @@ Sps1,
      [profile_idc |-> <<100>>, cpb_cnt_minus1 |-> <<0, 1>>, chroma_format_idc |-> <<2>>,
       video_signal_type_present_flag |-> <<1>>, colour_description_present_flag |-> <<1>>,
       chroma_loc_info_present_flag |-> <<1>>] @@ Hrd @@ Vui @@ Crop @@ Sps1,
      [profile_idc |-> <<110>>, chroma_format_idc |-> <<3>>, separate_colour_plane_flag |-> <<1>>,
       seq_scaling_matrix_present_flag |-> <<1>>] @@ Sps0,
      [profile_idc |-> <<77>>, nal_hrd_parameters_present_flag |-> <<1>>] @@ Vui @@ Sps0,
      [profile_idc |-> <<77>>, vcl_hrd_parameters_present_flag |-> <<1>>] @@ Vui @@ Sps0,
      [profile_idc |-> <<244>>] @@ Sps1 }

Pps0 == [pic_parameter_set_id |-> <<0>>, seq_parameter_set_id |-> <<0>>, num_slice_groups_minus1 |-> <<0>>]
Pps1 == [Pps0 EXCEPT !.seq_parameter_set_id = <<1>>]
Map(type) == [num_slice_groups_minus1 |-> <<2>>, slice_group_map_type |-> <<type>>]

MCPpsTold ==
    { [num_ref_idx_l0_active_minus1 |-> <<0>>, weighted_pred_flag |-> <<1>>] @@ Pps0,
      [weighted_pred_flag |-> <<1>>, weighted_bipred_idc |-> <<1>>, entropy_coding_mode_flag |-> <<1>>] @@ Pps1,
      [bottom_field_pic_order_in_frame_present_flag |-> <<1>>, redundant_pic_cnt_present_flag |-> <<1>>,
       weighted_bipred_idc |-> <<0>>, deblocking_filter_control_present_flag |-> <<1>>] @@ Pps0,
      [transform_8x8_mode_flag |-> <<1>>, pic_scaling_matrix_present_flag |-> <<1>>,
       pic_scaling_list_present_flag |-> <<0, 1, 0>>] @@ Map(4) @@ Pps0,
      Map(0) @@ Pps0, Map(2) @@ Pps1, Map(6) @@ Pps0 }

Slice(type, ref, bytes, told) ==
    [type |-> type, ref |-> ref, bytes |-> bytes, told |-> [pic_parameter_set_id |-> <<0>>] @@ told]

MCSliceTold ==
    { Slice(5, 1, 1, [slice_type |-> <<7>>]),
      Slice(1, 0, 2, [slice_type |-> <<I>>, frame_num |-> <<13>>, disable_deblocking_filter_idc |-> <<0>>]),
      Slice(1, 1, 1, [slice_type |-> <<5>>, frame_num |-> <<9>>, adaptive_ref_pic_marking_mode_flag |-> <<1>>,
                      memory_management_control_operation |-> <<1, 3, 2, 4, 0>>, field_pic_flag |-> <<1>>]),
      Slice(1, 0, 2, [slice_type |-> <<P>>, frame_num |-> <<5>>, ref_pic_list_modification_flag_l0 |-> <<1>>,
                      modification_of_pic_nums_idc |-> <<0, 2, 3>>, luma_weight_flag |-> <<1>>]),
      Slice(1, 0, 1, [slice_type |-> <<B>>, ref_pic_list_modification_flag_l1 |-> <<1>>,
                      modification_of_pic_nums_idc |-> <<1, 2, 3>>, num_ref_idx_active_override_flag |-> <<1>>,
                      chroma_weight_flag |-> <<0, 1>>]),
      Slice(1, 1, 1, [slice_type |-> <<SP>>]), Slice(1, 0, 1, [slice_type |-> <<SI>>]) }

MCSeiTold == [payloadType |-> <<5>>, payloadSize |-> <<16>>, payload |-> <<7>>]
=============================================================================
