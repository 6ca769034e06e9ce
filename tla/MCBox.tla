-------------------------------- MODULE MCBox ---------------------------------
(* Records of every kind, small, with a number that takes more than four   *)
(* octets where a field may have eight.                                    *)
EXTENDS BoxContract

Octets16(first) == [i \in 1..16 |-> (first + i) % 256]
Filled(layout, first) == ReadFields([i \in 1..SizeOf(layout) |-> (first + i) % 120], 0, layout)
Index ==
    [ssix |-> {[subsegments |-> <<[ranges |-> <<[level |-> 1, range_size |-> 70000], [level |-> 2, range_size |-> 3]>>],
                                  [ranges |-> <<>>]>>]},
     prft |-> {[reference_track_id |-> 1, ntp_timestamp |-> Wide, media_time |-> t, version |-> v, flags |-> 24] :
                 t \in {5, Wide}, v \in {0, 1}},
     emsg |-> {[scheme_id_uri |-> <<117>>, value |-> <<>>, timescale |-> 90, presentation |-> p,
                event_duration |-> 7, id |-> 3, message_data |-> <<1, 0>>] :
                 p \in {<<"delta", 9>>, <<"absolute", Wide>>}},
     pdin |-> {[entries |-> <<[rate |-> 1, initial_delay |-> 258], [rate |-> 3, initial_delay |-> 0]>>]},
     pnot |-> {[modification_date |-> 77, version |-> 0, atom_type |-> FourCC["text"], atom_index |-> 1]},
     leva |-> {[entries |-> <<[track_id |-> 1, padding_flag |-> TRUE, assignment_type |-> 0, grouping_type |-> 5,
                               grouping_type_parameter |-> 0, sub_track_id |-> 0],
                              [track_id |-> 2, padding_flag |-> FALSE, assignment_type |-> 1, grouping_type |-> 5,
                               grouping_type_parameter |-> 6, sub_track_id |-> 0],
                              [track_id |-> 3, padding_flag |-> FALSE, assignment_type |-> 4, grouping_type |-> 0,
                               grouping_type_parameter |-> 0, sub_track_id |-> 8],
                              [track_id |-> 4, padding_flag |-> FALSE, assignment_type |-> 2, grouping_type |-> 0,
                               grouping_type_parameter |-> 0, sub_track_id |-> 0]>>]},
     assp |-> {[version |-> 0, entries |-> <<[grouping_type_parameter |-> {}, min_initial_alt_startup_offset |-> -2]>>],
               [version |-> 1, entries |-> <<[grouping_type_parameter |-> {4}, min_initial_alt_startup_offset |-> 2]>>]},
     trep |-> {[track_id |-> 1, children |-> <<[fourcc |-> FourCC["free"], payload_len |-> 0, assp |-> {}],
                  [fourcc |-> FourCC["assp"], payload_len |-> 8, assp |-> {[version |-> 0,
                     entries |-> <<[grouping_type_parameter |-> {}, min_initial_alt_startup_offset |-> 1]>>]}]>>]},
     tfra |-> {[track_id |-> 1, entries |-> <<[time |-> Wide, moof_offset |-> 300, traf_number |-> 1,
                                               trun_number |-> 1, sample_number |-> 2]>>]},
     mfra |-> {[tables |-> <<[track_id |-> 1, entries |-> <<>>], [track_id |-> 2, entries |-> <<>>]>>, mfro_size |-> {64}]},
     sidx |-> {[reference_id |-> 1, timescale |-> 90, earliest_presentation_time |-> t, first_byte_offset |-> 0,
                references |-> <<[is_sidx |-> FALSE, referenced_size |-> 400, subsegment_duration |-> 9,
                                  starts_with_sap |-> s, sap_type |-> IF s THEN 1 ELSE 0]>>] :
                  t \in {3, Wide}, s \in BOOLEAN}]

Tracks ==
    [cprt |-> {[language |-> <<101, 110, 103>>, notice |-> <<67>>]},
     kind |-> {[scheme_uri |-> <<117>>, value |-> v] : v \in {<<>>, <<109>>}},
     tsel |-> {[switch_group |-> -1, attribute_list |-> <<7, 8>>]},
     strk |-> {[info |-> [switch_group |-> -1, alternate_group |-> 2, sub_track_id |-> 3], attribute_list |-> <<5>>,
                sample_groups |-> g] : g \in {<<>>, <<[grouping_type |-> 9, group_description_indices |-> <<1, 2>>]>>}},
     tref |-> {<<[reference_type |-> FourCC["text"], ids |-> <<1, 2>>], [reference_type |-> FourCC["free"], ids |-> <<>>]>>},
     trgr |-> {<<[group_type |-> FourCC["text"], track_group_id |-> 5]>>},
     elst |-> {<<[segment_duration |-> 4, media_time |-> -1, media_rate_integer |-> 1, media_rate_fraction |-> 0],
                 [segment_duration |-> 9, media_time |-> t, media_rate_integer |-> 1, media_rate_fraction |-> 0]>> :
                   t \in {7, Wide}},
     gmin |-> {Filled(GminLayout, 1)},
     tcmi |-> {[style |-> Filled(TcmiLayout, 1), font_name |-> <<65, 66>>]},
     tmcd |-> {Filled(TmcdLayout, 2)},
     text |-> {[style |-> Filled(TextLayout, 1), text_name |-> <<65>>]},
     load |-> {Filled(LoadLayout, 1)},
     srpp |-> {[algorithms |-> Filled(SrppLayout, 1), scheme_bytes |-> <<1, 2>>]},
     hinf |-> {[counters |-> [n \in Counters |-> IF n = "min_relative_time" THEN {-3} ELSE IF n = "packets_sent_64" THEN {Wide} ELSE {}],
                max_rates |-> <<Filled(MaxRate, 1)>>, payload_ids |-> <<[payload_id |-> 96, rtpmap |-> <<72>>]>>]},
     rtp |-> {[format |-> FourCC["rtp "], fixed |-> Filled(RtpLayout, 1), timescale |-> {90}, time_offset |-> {-4},
               sequence_offset |-> {}, srpp |-> {[algorithms |-> Filled(SrppLayout, 3), scheme_bytes |-> <<>>]}]},
     sm2t |-> {[format |-> FourCC["sm2t"], fixed |-> Filled(TransportLayout, 1), precomputed_only |-> TRUE,
                additional_data |-> <<7>>]},
     gmhd |-> {Filled(GminLayout, 1)},
     stvi |-> {[single_view_allowed |-> 2, stereo_scheme |-> 1, stereo_indication_type |-> <<0, 0, 0, 1>>]},
     colr |-> {[form |-> "nclx", colour_primaries |-> 1, transfer_characteristics |-> 13, matrix_coefficients |-> 6,
                full_range |-> TRUE], [form |-> "restricted", data |-> <<1>>], [form |-> "unrestricted", data |-> <<>>],
               [form |-> "other", colour_type |-> FourCC["text"], data |-> <<2>>]}]

Params(crypt, skip, prot, iv, constant) ==
    [version |-> 1, crypt |-> crypt, skip |-> skip, isProtected |-> prot, ivSize |-> iv, kid |-> Octets16(3),
     constantIv |-> constant]
Senc(iv, subs) == [initialization_vector |-> [i \in 1..iv |-> i], subsamples |-> subs]
Sub == <<[clear |-> 5, protected |-> 70000]>>
NoAux == [aux_info_type |-> {}, aux_info_type_parameter |-> {}]
CencAux == [aux_info_type |-> {FourCC["cenc"]}, aux_info_type_parameter |-> {0}]
Tables ==
    [subs |-> {[version |-> v, flags |-> 0, entries |-> <<[sample_delta |-> 1, subsamples |-> <<Filled(SubsLayout(v), 1)>>],
                                                       [sample_delta |-> 2, subsamples |-> <<>>]>>] : v \in {0, 1}},
     saiz |-> {[aux |-> CencAux, default_sample_info_size |-> 16, sample_count |-> 3, per_sample |-> <<>>],
               [aux |-> NoAux, default_sample_info_size |-> 0, sample_count |-> 2, per_sample |-> <<8, 0>>]},
     saio |-> {[version |-> 0, aux |-> NoAux, offsets |-> <<77>>], [version |-> 1, aux |-> CencAux, offsets |-> <<Wide, 5>>]},
     sbgp |-> {[grouping_type |-> FourCC["seig"], grouping_type_parameter |-> p,
                entries |-> <<[sample_count |-> 2, group_description_index |-> 1]>>] : p \in {{}, {3}}},
     sgpd |-> {[grouping_type |-> FourCC["seig"], default_sample_description_index |-> {}, entries |-> e] :
                 e \in {<<>>, <<<<1, 2>>, <<3, 4>>>>, <<<<1>>, <<2, 3>>>>}},
     csgp |-> {[grouping_type |-> FourCC["seig"], grouping_type_parameter |-> p, index_field_bits |-> b, msb_fragment_local |-> FALSE,
                patterns |-> <<[sample_count |-> 3, indices |-> <<1, i>>]>>] : p \in {{}, {3}}, i \in {2}, b \in {4}}
              \cup {[grouping_type |-> FourCC["seig"], grouping_type_parameter |-> {}, index_field_bits |-> 4, msb_fragment_local |-> TRUE,
                     patterns |-> <<[sample_count |-> 3, indices |-> <<1, i>>], [sample_count |-> 1, indices |-> <<2>>]>>] : i \in {9, 130}},
     roll |-> {[roll_distance |-> n] : n \in {-2, 3}},
     rash |-> {[single_target_rate_share |-> {40}, operation_points |-> <<>>, limits |-> Filled(RashLayout, 1)],
               [single_target_rate_share |-> {}, limits |-> Filled(RashLayout, 1),
                operation_points |-> <<Filled(PointLayout, 1), Filled(PointLayout, 7)>>]},
     alst |-> {[first_output_sample |-> 3, sample_offsets |-> <<1, 70000>>, output_rate_pieces |-> p] :
                 p \in {<<>>, <<Filled(PieceLayout, 1)>>}},
     tele |-> {[level_independently_decodable |-> b] : b \in BOOLEAN},
     tenc |-> {Params(1, 9, 1, 8, {}), Params(0, 0, 1, 0, {[i \in 1..8 |-> i]}), [Params(0, 0, 1, 16, {}) EXCEPT !.version = 0]},
     seig |-> {Params(1, 9, 1, 8, {}), Params(0, 0, 0, 0, {})},
     pssh |-> {[version |-> 0, system_id |-> Octets16(9), kids |-> <<>>, data |-> <<1>>],
               [version |-> 1, system_id |-> Octets16(9), kids |-> <<Octets16(3)>>, data |-> <<>>]},
     senc |-> {[flags |-> 2, samples |-> <<Senc(8, Sub), Senc(8, <<>>)>>], [flags |-> 0, samples |-> <<Senc(8, <<>>)>>]}]
  @@ ("rap " :> {[num_leading_samples_known |-> b, num_leading_samples |-> 5] : b \in BOOLEAN})
  @@ ("sap " :> {[dependent_flag |-> b, sap_type |-> 3] : b \in BOOLEAN})
  @@ ("piff tenc" :> {[algorithm_id |-> 1, iv_size |-> 8, kid |-> Octets16(3)]})
  @@ ("piff senc" :> {[flags |-> 2, override_params |-> {}, samples |-> <<Senc(8, Sub)>>],
                      [flags |-> 1, override_params |-> {[algorithm_id |-> 1, iv_size |-> 8, kid |-> Octets16(3)]},
                       samples |-> <<Senc(8, <<>>)>>]})
  @@ ("piff pssh" :> {[version |-> 0, system_id |-> Octets16(9), kids |-> <<>>, data |-> <<1>>]})

Part(offset, length) == [extent_index |-> 0, extent_offset |-> offset, extent_length |-> length]
Iloc(version, offset, base, index) ==
    [version |-> version, offset_size |-> offset, length_size |-> 4, base_offset_size |-> base, index_size |-> index,
     items |-> <<[item_id |-> 1, construction_method |-> IF version = 0 THEN 0 ELSE 1, data_reference_index |-> 0,
                  base_offset |-> IF base = 0 THEN 0 ELSE Wide, extents |-> <<Part(1, 2), Part(3, 4)>>]>>]
InIdat(method, extents) ==
    [version |-> 1, offset_size |-> 4, length_size |-> 4, base_offset_size |-> 4, index_size |-> 0,
     items |-> <<[item_id |-> 1, construction_method |-> method, data_reference_index |-> 0, base_offset |-> 1,
                  extents |-> extents]>>]
Infe(version, type, content, encoding) ==
    [item_id |-> 1, protection_index |-> 0, item_type |-> type, item_name |-> <<110>>, content_type |-> content,
     content_encoding |-> encoding, version |-> version]
Fpar(version) ==
    [version |-> version, fields |-> Items!ReadFields([i \in 1..20 |-> i], 0, Items!FparLayout(version)),
     scheme_specific_info |-> <<65>>, entries |-> <<[block_count |-> 1, block_size |-> 70000]>>]
Reservoir(version) == [version |-> version, entries |-> <<[item_id |-> 3, symbol_count |-> 4]>>]
Of(item_id, list) ==
    [item_id |-> item_id, associations |-> [i \in DOMAIN list |-> [essential |-> i = 1, property_index |-> list[i]]]]
Properties ==
    <<[form |-> "ispe", fields |-> [image_width |-> 4, image_height |-> 3]], [form |-> "irot", value |-> 3],
      [form |-> "pixi", list |-> <<8, 8>>], [form |-> "rref", list |-> <<FourCC["text"]>>],
      [form |-> "auxC", texts |-> <<<<117>>>>, aux_subtype |-> <<1>>], [form |-> "lsel", value |-> 2],
      [form |-> "altt", texts |-> <<<<65>>, <<>>>>], [form |-> "colr", fields |-> [form |-> "restricted", data |-> <<1>>]],
      [form |-> "crtt", fields |-> [creation_time |-> Wide]], [form |-> "other", box_type |-> FourCC["free"], body |-> <<>>]>>
ItemKinds ==
    [iloc |-> {Iloc(0, 4, 0, 0), Iloc(1, 4, 8, 0), Iloc(2, 8, 0, 4)},
     pitm |-> {1, 70000},
     iinf |-> {[entries |-> <<Infe(2, FourCC["mime"], <<109>>, e), Infe(3, FourCC["free"], <<>>, <<>>)>>] : e \in {<<>>, <<103>>}}
              \cup {[entries |-> <<Infe(0, 0, <<109>>, <<>>), Infe(2, FourCC["uri "], <<>>, <<117>>)>>]},
     iref |-> {[version |-> v, references |-> <<[reference_type |-> FourCC["text"], from_item_id |-> 1, to_item_ids |-> <<2, 3>>]>>] :
                 v \in {0, 1}},
     iprp |-> {[properties |-> Properties, associations |-> <<Of(1, <<2, 1>>), Of(2, <<>>)>>],
               [properties |-> <<Properties[1]>>, associations |-> <<Of(70000, <<1>>)>>],
               [properties |-> <<>>, associations |-> <<Of(3, <<200>>)>>]},
     grpl |-> {[groups |-> <<[grouping_type |-> FourCC["text"], group_id |-> 5, entity_ids |-> <<1, 2>>]>>]},
     fiin |-> {[partition_entries |-> <<[fpar |-> {Fpar(v)}, fecr |-> {Reservoir(v)}, fire |-> {}]>>,
                session_info |-> {[session_groups |-> <<[group_ids |-> <<1>>, hint_track_ids |-> <<2, 3>>]>>]},
                group_id_to_name |-> {[entries |-> <<[group_id |-> 1, group_name |-> <<71>>]>>]}] : v \in {0, 1}},
     feci |-> {[fec_encoding_id |-> 1, fec_instance_id |-> 2, source_block_number |-> 3, encoding_symbol_id |-> 4]},
     mere |-> {[first_metabox_handler_type |-> FourCC["vide"], second_metabox_handler_type |-> 5, metabox_relation |-> 2]},
     meta |-> {[primary_item_id |-> {1}, handler_type |-> FourCC["vide"], iloc |-> {InIdat(m, e)}, idat |-> <<10, 11, 12, 13>>,
                iinf |-> {[entries |-> <<Infe(3, FourCC["free"], <<>>, <<>>)>>]}, item |-> {Infe(3, FourCC["free"], <<>>, <<>>)},
                ranges |-> {[i \in DOMAIN e |-> [offset |-> 1 + e[i].extent_offset, length |-> e[i].extent_length]]}, data |-> d] :
                  <<m, e, d>> \in {<<1, <<Part(0, 2), Part(2, 1)>>, {<<11, 12, 13>>}>>, <<1, <<Part(0, 0)>>, {<<11, 12, 13>>}>>,
                                  <<1, <<Part(0, 1), Part(1, 3)>>, {}>>, <<0, <<Part(0, 1)>>, {}>>}}]

Of4(code, octets) == Num(4, 8 + Len(octets)) \o Num(4, FourCC[code]) \o octets
Says(octets, says) == [octets |-> octets, says |-> says]
Tune == Of4("@nam", Of4("data", Zeros(8) \o <<72, 105>>))
Freeform == Of4("----", Of4("mean", Zeros(4) \o <<77>>) \o Of4("name", Zeros(4) \o <<78>>) \o Of4("data", Zeros(8) \o <<79>>))

Iv(n) == [i \in 1..n |-> 40 + i]
Unprotected1 == <<[track_id |-> 1, tenc |-> {}, piff_tenc |-> {[algorithm_id |-> 1, iv_size |-> 8, kid |-> Octets16(3)]}]>>
TfhdOfAll == Of4("tfhd", Num(4, 59) \o Num(4, 1) \o Num(8, 500) \o Num(4, 2) \o Num(4, 9) \o Num(4, 11) \o Num(4, 65536))
TrunFollowing == Of4("trun", Num(4, 2052) \o Num(4, 2) \o Num(4, 0) \o Num(4, 1) \o <<255, 255, 255, 253>>)
TrunBehind == Of4("trun", Num(4, 257) \o Num(4, 1) \o <<255, 255, 255, 252>> \o Num(4, 6))
PiffSencOf(iv) == Of4("uuid", UserType.senc \o Num(4, 2) \o Num(4, 1) \o iv \o Num(2, 1) \o Num(2, 5) \o Num(4, 70000))
OneSenc == <<[initialization_vector |-> Iv(8), subsamples |-> Sub]>>
RowOf(duration, cts) == [duration |-> duration, size |-> {}, flags |-> {}, cts |-> cts]
FoundTraf(tfhd, time, truns, sencs, piffs) ==
    [tfhd |-> tfhd, bmdt |-> time, truns |-> truns, senc |-> sencs, piff |-> piffs, saiz |-> <<>>, saio |-> <<>>,
     sgpd |-> <<>>, sbgp |-> <<>>, csgp |-> <<>>]
EmptyTfhd ==
    [track |-> 1, base |-> {}, sdi |-> {}, duration |-> {9}, size |-> {}, flags |-> {}, empty |-> TRUE]
Entry28(format, bits, children) ==
    Zeros(4) \o Num(4, 1) \o Of4(format, Zeros(6) \o <<0, 1>> \o Zeros(8) \o <<0, 1, 0, bits>> \o Zeros(4) \o <<172, 68, 0, 0>> \o children)
Relation == [first_metabox_handler_type |-> 3, second_metabox_handler_type |-> 4, metabox_relation |-> 5]
FragmentKinds ==
    [traf |-> {[tracks |-> Unprotected1, octets |-> TfhdOfAll \o Of4("tfdt", Zeros(4) \o Num(4, 77)) \o PiffSencOf(Iv(8)) \o TrunFollowing \o TrunBehind,
                says |-> FoundTraf([track |-> 1, base |-> {500}, sdi |-> {2}, duration |-> {9}, size |-> {11}, flags |-> {FALSE}, empty |-> FALSE],
                  {77}, <<[dataOffset |-> {}, first |-> {TRUE}, rows |-> <<RowOf({}, {1}), RowOf({}, {-3})>>],
                          [dataOffset |-> {-4}, first |-> {}, rows |-> <<RowOf({6}, {})>>]>>,
                  {[flags |-> 2, samples |-> OneSenc]}, {[flags |-> 2, override_params |-> {}, samples |-> OneSenc]})],
               [tracks |-> Unprotected1, octets |-> TrunBehind \o Of4("tfdt", Zeros(4) \o Num(4, 77)) \o Of4("tfhd", Num(4, 65544) \o Num(4, 1) \o Num(4, 9)),
                says |-> FoundTraf(EmptyTfhd, {}, <<>>, {}, {})]},
     adts |-> {Says(<<255, 241, 80, 128, 1, 63, 252, 7, 8>>, [sample |-> <<7, 8>>, config |-> {<<18, 16>>}]),
               Says(<<1, 2, 3, 4, 5, 6, 7, 8>>, [sample |-> <<1, 2, 3, 4, 5, 6, 7, 8>>, config |-> {}])},
     pcm |-> {Says(Entry28("twos", 16, <<>>), [codec |-> "pcm_s16le", data |-> {<<2, 1, 4, 3, 5>>}]),
              Says(Entry28("in24", 16, <<>>), [codec |-> "pcm_s24le", data |-> {<<3, 2, 1, 4, 5>>}]),
              Says(Entry28("in24", 16, Of4("enda", <<0, 1>>)), [codec |-> "pcm_s24le", data |-> {<<1, 2, 3, 4, 5>>}])},
     meco |-> {Says(Of4("meta", Zeros(4) \o Of4("idat", <<9>>)) \o Of4("mere", Zeros(4) \o Num(4, 3) \o Num(4, 4) \o <<5>>),
                 [metas |-> <<[primary_item_id |-> {}, handler_type |-> 0, iloc |-> {}, iinf |-> {}, iref |-> {}, idat |-> <<9>>,
                              fiin |-> {}, iprp |-> {}, grpl |-> {}]>>, relations |-> <<Relation>>])}]
ReadKinds ==
    [stz2 |-> {Says(Zeros(7) \o <<4>> \o Num(4, 3) \o <<18, 48>>, <<1, 2, 3>>),
               Says(Zeros(7) \o <<8>> \o Num(4, 2) \o <<18, 48>>, <<18, 48>>),
               Says(Zeros(7) \o <<16>> \o Num(4, 1) \o <<1, 0>>, <<256>>)},
     sdtp |-> {Says(Zeros(4) \o <<36, 27>>,
                 <<[is_leading |-> 0, sample_depends_on |-> 2, sample_is_depended_on |-> 1, sample_has_redundancy |-> 0],
                   [is_leading |-> 0, sample_depends_on |-> 1, sample_is_depended_on |-> 2, sample_has_redundancy |-> 3]>>)},
     stdp |-> {Says(Zeros(4) \o <<0, 7, 1, 0>>, <<7, 256>>)},
     padb |-> {Says(Zeros(4) \o Num(4, 3) \o <<151, 32>>, <<1, 7, 2>>)},
     stsh |-> {Says(Zeros(4) \o Num(4, 1) \o Num(4, 5) \o Num(4, 2), <<[shadowed_sample_number |-> 5, sync_sample_number |-> 2]>>)},
     hmhd |-> {Says(Zeros(4) \o <<0, 9, 0, 5>> \o Num(4, 70000) \o Num(4, 8) \o Zeros(4),
                    [max_pdu_size |-> 9, avg_pdu_size |-> 5, max_bitrate |-> 70000, avg_bitrate |-> 8])},
     elng |-> {Says(Zeros(4) \o <<101, 110, 0>>, <<101, 110>>)},
     mehd |-> {Says(Zeros(4) \o Num(4, 9), 9), Says(<<1, 0, 0, 0>> \o Num(8, Wide), Wide)},
     dref |-> {Says(Zeros(4) \o Num(4, 2) \o Of4("url ", <<0, 0, 0, 1>>) \o Of4("urn ", Zeros(4) \o <<65, 0, 66, 0>>),
                 <<[kind |-> FourCC["url "], flags |-> 1, name |-> {}, location |-> {}],
                   [kind |-> FourCC["urn "], flags |-> 0, name |-> {<<65>>}, location |-> {<<66>>}]>>)},
     udta |-> {Says(Of4("titl", Zeros(6) \o <<72, 0>>) \o Of4("meta", Zeros(4) \o Of4("ilst", Tune \o Freeform)),
                 <<[key |-> [item |-> "title", of |-> <<>>], value |-> <<72>>], [key |-> [item |-> "title", of |-> <<>>], value |-> <<72, 105>>],
                   [key |-> [item |-> "----", of |-> <<<<77>>, <<78>>>>], value |-> <<79>>]>>)}]

Audio(codec, channels, rate, bits, extradata) ==
    [codec |-> codec, media_type |-> "audio", channels |-> {channels}, sample_rate |-> {rate}, bits |-> bits,
     width |-> {}, height |-> {}, extradata |-> extradata]
Video(codec, extradata) ==
    [codec |-> codec, media_type |-> "video", channels |-> {}, sample_rate |-> {}, bits |-> {}, width |-> {640},
     height |-> {360}, extradata |-> extradata]
Subtitle(codec, extradata) ==
    [codec |-> codec, media_type |-> "subtitle", channels |-> {}, sample_rate |-> {}, bits |-> {}, width |-> {},
     height |-> {}, extradata |-> extradata]
Dops == <<0, 2, 0, 0, 0, 0, 187, 128, 0, 0, 0>>
Cookie == [i \in 1..24 |-> CASE i = 6 -> 16 [] i = 10 -> 2 [] i = 23 -> 172 [] i = 24 -> 68 [] OTHER -> 0]
AacConfig(channels, rate) == CHOOSE asc \in LcAscFromParams({channels}, {rate}) : TRUE
Coded ==
    {Audio("pcm_s16le", 2, 48000, {16}, <<>>), Audio("pcm_f32le", 1, 192000, {32}, <<>>),
     Audio("pcm_s24le", 8, 44100, {24}, <<>>), Audio("flac", 2, 44100, {24}, <<1, 2, 3>>),
     Audio("aac", 2, 44100, {}, AacConfig(2, 44100)), Audio("aac", 8, 48000, {}, AacConfig(8, 48000)),
     Audio("opus", 2, 48000, {}, Dops), Audio("opus", 2, 48000, {}, OpusHead \o Dops),
     Audio("alac", 2, 44100, {16}, Cookie), Audio("ac3", 6, 48000, {}, <<1>>), Audio("eac3", 6, 48000, {}, <<1>>),
     Audio("mp3", 2, 44100, {}, <<>>), Audio("pcm_mulaw", 1, 8000, {}, <<>>), Audio("pcm_alaw", 1, 8000, {}, <<>>),
     Video("h264", <<1, 2, 3>>), Video("h265", <<1>>), Video("av1", <<1>>), Video("vp9", <<1>>), Video("vp8", <<1>>),
     Video("h263", <<>>), Video("h263", <<4>>), Video("mjpeg", <<>>),
     Subtitle("mov_text", <<5>>), Subtitle("webvtt", <<>>), Subtitle("ttml", <<5, 6>>)}
Protections ==
    {{}, {[scheme_type |-> FourCC["cenc"], scheme_version |-> 65536, tenc |-> [Params(0, 0, 1, 8, {}) EXCEPT !.version = 0]]},
     {[scheme_type |-> FourCC["cbcs"], scheme_version |-> 65536, tenc |-> Params(1, 9, 1, 0, {Octets16(1)})]}}
Streams == [stream |-> [params : Coded, protection : Protections]]

Group(count, value) == [count |-> count, value |-> value]
Track(p, protection, ctts, edits, sgpd, sbgp, csgp, offset) ==
    [params |-> p, protection |-> protection, media_time_scale |-> 90, cumulative_duration |-> 27,
     tkhd_timestamps |-> [creation_time |-> 5, modification_time |-> 0], mdhd_timestamps |-> [creation_time |-> 0, modification_time |-> Wide],
     edits |-> edits, stts |-> <<Group(3, 9)>>, ctts |-> ctts, stss |-> <<[sample |-> 1]>>,
     stsc |-> <<[first |-> 1, perChunk |-> 3, description |-> 1]>>, stsz |-> <<100, 7, 7>>,
     chunkOffsets |-> <<[offset |-> offset]>>, sgpd |-> sgpd, sbgp |-> sbgp, csgp |-> csgp,
     trex |-> [default_sample_description_index |-> 1, default_sample_duration |-> 9, default_sample_size |-> 0,
               default_sample_flags |-> 65536]]
OneEdit == {<<[segment_duration |-> 300, media_time |-> 3, media_rate_integer |-> 1, media_rate_fraction |-> 0]>>}
Seig == [grouping_type |-> FourCC["seig"], default_sample_description_index |-> {}, entries |-> <<<<0, 0, 0, 0>>>>]
SeigRuns == [grouping_type |-> FourCC["seig"], grouping_type_parameter |-> {}, entries |-> <<[sample_count |-> 3, group_description_index |-> 1]>>]
Level == [track_id |-> 1, padding_flag |-> TRUE, assignment_type |-> 0, grouping_type |-> 5,
          grouping_type_parameter |-> 0, sub_track_id |-> 0]
Startup == [fourcc |-> FourCC["assp"], payload_len |-> 8, assp |-> {[version |-> 0,
              entries |-> <<[grouping_type_parameter |-> {}, min_initial_alt_startup_offset |-> 1]>>]}]
Movie(tracks, pssh) ==
    [tracks |-> tracks, pssh |-> pssh, times |-> Unset, fragmented |-> FALSE, mehd |-> {}, levels |-> <<>>, treps |-> <<>>]
Pictures(protection, ctts, edits, offset) ==
    Track(Video("h264", <<1>>), protection, ctts, edits, <<Seig>>, <<SeigRuns>>, <<>>, offset)
Tones == [Track(Audio("pcm_s16le", 2, 48000, {16}, <<>>), {}, <<>>, {}, <<>>, <<>>, <<>>, 64) EXCEPT !.stsz = <<1, 1, 1>>]
Titles == Track(Subtitle("mov_text", <<>>), {}, <<>>, {}, <<>>, <<>>, <<>>, 64)
System == [version |-> 0, system_id |-> Octets16(9), kids |-> <<>>, data |-> <<>>]
Movies ==
    [moov |-> {Movie(<<Pictures(p, c, e, o), Titles>>, <<System>>) :
                 p \in Protections, c \in {<<Group(3, 0)>>, <<Group(1, 0), Group(2, -4)>>}, e \in {{}, OneEdit}, o \in {64, Wide}}
              \cup {Movie(<<Tones>>, <<>>)}
              \cup {[Movie(<<Pictures(p, <<>>, OneEdit, 64), Titles>>, <<System>>)
                       EXCEPT !.fragmented = TRUE, !.mehd = n, !.levels = l, !.treps = r] :
                 p \in Protections, n \in {{}, {333}}, l \in {<<>>, <<Level>>}, r \in {<<>>, <<[track_id |-> 1, children |-> <<Startup>>]>>}}]
(* Fragments of two tracks, the first protected: by a vector and a map of  *)
(* subsamples for each sample, by a vector, or by a constant one.          *)
InRun(key, duration, size, cts) == [key |-> key, duration |-> duration, size |-> size, cts |-> cts]
NonSync == 16842752
Fragment1(pending, senc, seig) ==
    [track_id |-> 1, next_bmdt |-> Wide, pending |-> pending, senc |-> senc, seig |-> seig]
Fragment2(pending) == [track_id |-> 2, next_bmdt |-> 8, pending |-> pending, senc |-> <<>>, seig |-> [k \in DOMAIN pending |-> {}]]
Fragments ==
    [moof |-> {[sequence |-> 7, pssh |-> <<System>>, trafs |-> <<Fragment1(<<InRun(SyncFlags, 3, 100, 0), InRun(NonSync, 3, 7, c), InRun(NonSync, d, 7, 0)>>, s, g), Fragment2(q)>>,
                tracks |-> <<[track_id |-> 1, tenc |-> {Params(0, 0, 1, Len(s[1].initialization_vector), {})}, piff_tenc |-> {}],
                             [track_id |-> 2, tenc |-> {}, piff_tenc |-> {}]>>] :
                  <<c, d>> \in {<<0, 3>>, <<-2, 5>>}, q \in {<<>>, <<InRun(SyncFlags, 2, 5, 0)>>},
                  s \in {<<Senc(8, Sub), Senc(8, <<>>), Senc(8, Sub \o Sub)>>, <<Senc(8, <<>>), Senc(8, <<>>), Senc(8, <<>>)>>,
                         <<Senc(0, <<>>), Senc(0, <<>>), Senc(0, <<>>)>>},
                  g \in {<<{}, {}, {}>>, <<{Params(1, 9, 1, 8, {})}, {}, {Params(1, 9, 1, 8, {})}>>}}]
AllKinds == Fragments @@ FragmentKinds @@ Index @@ Tracks @@ Tables @@ ItemKinds @@ ReadKinds @@ Streams @@ Movies
DamagedKinds == DOMAIN AllKinds \ {"moov"}
=============================================================================
