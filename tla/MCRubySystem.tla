---------------------------- MODULE MCRubySystem ----------------------------
EXTENDS RubySystem, TLC

TwoRanges == <<[start |-> 0, size |-> 64], [start |-> 128, size |-> 64]>>

Base ==
  [protocol |-> "MI_example", topology |-> "Crossbar", cpus |-> 4, rows |-> 2, cols |-> 2,
   l2s |-> 4, l3s |-> 2, dirs |-> 4, dmas |-> 0, clusters |-> 2, full |-> TRUE, boot |-> FALSE,
   ranges |-> <<[start |-> 0, size |-> 64]>>, bootRange |-> [start |-> 256, size |-> 8],
   block |-> 2, setBits |-> 2, numa_high_bit |-> 0, xor_low_bit |-> 0,
   buffer |-> [DRAM |-> 0, NVM |-> 0], pf_on |-> TRUE, pf_bits |-> 2, traffic |-> FALSE,
   cus |-> 3, sqcs |-> 1, scalars |-> 1, cps |-> 2, tccs |-> 2,
   channels |-> 2, intlv |-> 3, dram |-> TRUE, nvm |-> FALSE, hybrid |-> FALSE,
   pairing |-> FALSE, placement |-> <<>>]

Variants(options) == {o @@ Base : o \in options}

(* Every protocol on every topology it can be asked for. *)
AllPairs ==
  Variants({[protocol |-> p, topology |-> t, dmas |-> d, full |-> f, boot |-> f] :
              p \in {"MI_example", "MOESI_hammer", "MESI_Two_Level", "MOESI_CMP_directory",
                     "MOESI_CMP_token", "MESI_Three_Level", "MESI_Three_Level_HTM",
                     "Garnet_standalone"},
              t \in {"Crossbar", "CrossbarGarnet", "Pt2Pt", "Mesh_XY", "Mesh_westfirst",
                     "MeshDirCorners_XY"},
              d \in {0, 2}, f \in BOOLEAN})

(* Meshes that are not square, do not fit or have remainders. *)
Meshes ==
  Variants({[protocol |-> p, topology |-> t, cpus |-> n, rows |-> r, dmas |-> 3, full |-> f] :
              p \in {"MESI_Two_Level", "MESI_Three_Level"}, t \in {"Mesh_XY", "Mesh_westfirst", "MeshDirCorners_XY"},
              n \in {2, 6, 8}, r \in {0, 1, 3}, f \in {TRUE}})

(* Interleaving of directories, L2 caches and home nodes. *)
Interleavings ==
  Variants({[protocol |-> p, dirs |-> d, l2s |-> b, l3s |-> b, ranges |-> TwoRanges,
             numa_high_bit |-> n, xor_low_bit |-> x, boot |-> TRUE,
             buffer |-> [DRAM |-> r, NVM |-> 0]] :
              p \in {"MOESI_CMP_directory", "MOESI_hammer"}, d \in {1, 2, 3, 4}, b \in {2, 4},
              n \in {0, 5}, x \in {0, 2, 3, 6}, r \in {0, 4}})

Place(per, routers) == [per |-> per, routers |-> routers]
Placement ==
  [RNF |-> Place(1, <<0, 1, 2, 3, 4, 5>>), HNF |-> Place(2, <<1, 4>>),
   SNF_MainMem |-> Place(0, <<0, 5>>), SNF_BootMem |-> Place(0, <<3>>),
   RNI_DMA |-> Place(0, <<2, 3>>), RNI_IO |-> Place(0, <<2>>)]

Chi ==
  Variants({[protocol |-> "CHI", topology |-> t, cpus |-> n, rows |-> 2, cols |-> 3, l3s |-> l,
             dirs |-> d, dmas |-> 3, boot |-> TRUE, pairing |-> p, placement |-> Placement] :
              t \in {"CustomMesh", "Crossbar", "Mesh_XY"}, n \in {2, 6}, l \in {1, 4},
              d \in {2, 4}, p \in BOOLEAN})

Gpu ==
  Variants({[protocol |-> p, topology |-> "Crossbar", cpus |-> n, dirs |-> d, dmas |-> 2,
             numa_high_bit |-> h, tccs |-> k] :
              p \in {"GPU_VIPER", "MOESI_AMD_Base"}, n \in {1, 4}, d \in {1, 2}, h \in {0, 5},
              k \in {1, 4}})

Classic ==
  Variants({[protocol |-> "classic", ranges |-> r, channels |-> n, intlv |-> i, xor_low_bit |-> x,
             dram |-> d, nvm |-> v, hybrid |-> h, buffer |-> [DRAM |-> b, NVM |-> 4]] :
              r \in {TwoRanges, TwoRanges \o <<[start |-> 256, size |-> 64]>>}, n \in {1, 2, 3, 4},
              i \in {2, 3}, x \in {0, 5}, d \in BOOLEAN, v \in BOOLEAN, h \in BOOLEAN,
              b \in {0, 3}})

(* Two-by-two and two-by-three meshes on which packets are followed. *)
Traffic ==
  Variants({[topology |-> t, traffic |-> TRUE] : t \in {"Mesh_XY", "Mesh_westfirst"}}
             \cup {[protocol |-> "MESI_Two_Level", topology |-> "Mesh_westfirst", cpus |-> 6,
                    l2s |-> 4, dirs |-> 2, traffic |-> TRUE]})

MCConfigs ==
  AllPairs \cup Meshes \cup Interleavings \cup Chi \cup Gpu \cup Classic \cup Traffic

(* The memories of all of these are round ones; protocols refuse some of   *)
(* the options, and gem5 the match of a third directory.                   *)
ASSUME RoundAssumption == \A c \in MCConfigs : ~Refused(c) /\ c.dirs # 3 => RoundMemories(c)
=============================================================================
