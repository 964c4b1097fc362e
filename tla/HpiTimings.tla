----------------------------- MODULE HpiTimings -----------------------------
(***************************************************************************)
(* The functional units of the HPI core (common/cores/arm/HPI.py): which   *)
(* unit an instruction issues to, and with which timing.                   *)
(*                                                                         *)
(* A timing has a pattern over the instruction's bits.  A unit takes the   *)
(* first of its timings whose pattern the instruction matches, so the      *)
(* order of the lists decides; a timing that suppresses keeps instructions *)
(* off its unit.  Bits 34 to 36 of an encoding tell the instruction set.   *)
(* Half words are hexadecimal: mask and match, each high half first, as    *)
(* make_implicant() computes them from the patterns of 0, 1 and x.         *)
(***************************************************************************)
EXTENDS Integers, Sequences, FiniteSets, Functions, SequencesExt, FiniteSetsExt

CONSTANT Operands   \* operands of divisions

ASSUME OperandsAssumption == Operands \subseteq Int

VARIABLES
  instr,   \* the instruction: the set of its bits that are 1
  class,   \* its operation class
  free,    \* units without an instruction in this cycle
  offer,   \* the unit the instruction is offered to; 8 after the last one
  timing,  \* the timing it issues with, "none" without one, or "waiting"
  operands \* of a division: dividend and divisor

hpiVars == <<instr, class, free, offer, timing, operands>>
-----------------------------------------------------------------------------
HalfBits(half, base) == {base + i : i \in {j \in 0 .. 15 : (half \div 2^j) % 2 = 1}}
Bits(hi, lo) == HalfBits(hi, 16) \cup HalfBits(lo, 0)

(* A timing: bits that must be 1, bits that must be 0, and the latencies   *)
(* its source registers may lag behind, as lengths of runs.                *)
T(name, headerOnes, headerZeros, mh, ml, vh, vl, lats) ==
  [name |-> name, lats |-> lats, ones |-> headerOnes \cup Bits(vh, vl),
   zeros |-> headerZeros \cup (Bits(mh, ml) \ Bits(vh, vl))]

A64(name, mh, ml, vh, vl, lats) == T(name, {34}, {35, 36}, mh, ml, vh, vl, lats)
A32(name, mh, ml, vh, vl, lats) == T(name, {}, {34, 35, 36}, mh, ml, vh, vl, lats)
T32(name, mh, ml, vh, vl, lats) == T(name, {35, 36}, {34}, mh, ml, vh, vl, lats)
T16(name, mh, ml, vh, vl, lats) == T(name, {36}, {34, 35}, mh, ml, vh, vl, lats)
AnyA64(name, lats)    == T(name, {34}, {}, 0, 0, 0, 0, lats)
AnyNonA64(name, lats) == T(name, {}, {34}, 0, 0, 0, 0, lats)

DefaultTimings == {
  AnyNonA64("DefaultInt", <<3,2, 2,3, 1,1, 0,1>>),
  AnyA64("DefaultA64Int", <<2,3, 0,1>>),
  AnyNonA64("DefaultMul", <<0,7>>),
  AnyA64("DefaultA64Mul", <<0,4>>),
  AnyNonA64("DefaultVfp", <<5,6, 2,8, 0,1>>),
  AnyA64("DefaultA64Vfp", <<5,3, 2,1>>),
  A64("FMADD_A64", \hFFA0, \h8000, \h1F00, \h0000, <<5,3, 0,4, 1,2, 0,5>>),
  A64("FMSUB_D_A64", \hFFA0, \h8000, \h1F00, \h8000, <<5,3, 0,4, 1,2, 0,5>>),
  A64("FMOV_A64", \hFFBF, \hFC00, \h1E20, \h4000, <<5,3, 0,1>>),
  A64("ADD_SUB_vector_scalar_A64", \hDF20, \hFC00, \h5E20, \h8400, <<5,3, 4,1>>),
  A64("ADD_SUB_vector_vector_A64", \h9F20, \hFC00, \h0E20, \h8400, <<5,3, 4,1>>),
  A64("FDIV_scalar_32_A64", \hFFE0, \hFC00, \h1E20, \h1800, <<0,3, 20,1, 4,1>>),
  A64("FDIV_scalar_64_A64", \hFFE0, \hFC00, \h1E60, \h1800, <<0,3, 20,1, 4,1>>),
  A64("Cxxx_A64", \h3FE0, \h0800, \h1A80, \h0000, <<3,3, 2,2>>),
  AnyNonA64("DefaultMem", <<1,5, 2,1>>),
  AnyA64("DefaultMem64", <<2,1>>),
  A32("DataProcessingMovShiftr", \h0FE0, \h0010, \h01A0, \h0010, <<3,2, 2,3, 1,1, 0,1>>),
  A32("DataProcessingMayShift", \h0E00, \h0000, \h0000, \h0000, <<3,2, 2,2, 1,2, 0,1>>),
  A32("DataProcessingNoShift", \h0E00, \h0F90, \h0000, \h0000, <<3,2, 2,3, 1,1, 0,1>>),
  A32("DataProcessingAllowShifti", \h0E00, \h0010, \h0000, \h0000, <<3,2, 2,2, 1,2, 0,1>>),
  A32("DataProcessingSuppressShift", \h0E00, \h0000, \h0000, \h0000, <<>>),
  A32("DataProcessingSuppressBranch", \h0F00, \h0000, \h0A00, \h0000, <<>>),
  T32("BFI_T1", \hFBF0, \h8000, \hF360, \h0000, <<0,3, 1,2, 0,1>>),
  A32("BFI_A1", \h0FE0, \h0070, \h07C0, \h0010, <<0,3, 1,2, 0,1>>) }

BitTimings == {
  T32("CLZ_T1", \hFFF0, \hF0F0, \hFAB0, \hF080, <<3,2, 2,3, 1,1, 0,1>>),
  A32("CLZ_A1", \h0FF0, \h00F0, \h0160, \h0010, <<3,2, 2,3, 1,1, 0,1>>),
  A32("CMN_immediate_A1", \h0FF0, \h0000, \h0370, \h0000, <<3,3, 2,2, 3,3, 0,1>>),
  A32("CMN_register_A1", \h0FF0, \h0010, \h0170, \h0000, <<3,3, 2,2, 3,3, 0,1>>),
  A32("CMP_immediate_A1", \h0FF0, \h0000, \h0350, \h0000, <<3,3, 2,2, 3,3, 0,1>>),
  A32("CMP_register_A1", \h0FF0, \h0010, \h0150, \h0000, <<3,3, 2,2, 3,3, 0,1>>),
  T32("MLA_T1", \hFFF0, \h00F0, \hFB00, \h0000, <<0,5, 2,1, 0,1>>),
  A32("MLA_A1", \h0FE0, \h00F0, \h0020, \h0090, <<0,5, 2,1, 0,1>>),
  A64("MADD_A64", \h7FE0, \h8000, \h1B00, \h0000, <<1,3, 0,1>>),
  T32("MLS_T1", \hFFF0, \h00F0, \hFB00, \h0010, <<0,3, 2,1, 0,3>>),
  A32("MLS_A1", \h0FF0, \h00F0, \h0060, \h0090, <<0,3, 2,1, 0,3>>),
  T32("MOVT_A1", \h0FF0, \h0000, \h0240, \h0000, <<>>),
  T16("MUL_T1", \h0000, \hFFC0, \h0000, \h4340, <<>>),
  T32("MUL_T2", \hFFF0, \hF0F0, \hFB00, \hF000, <<>>),
  T32("PKH_T1", \hFFE0, \h0000, \hEAC0, \h0000, <<0,3, 2,1, 1,1, 0,1>>),
  A32("PKH_A1", \h0FF0, \h0030, \h0680, \h0010, <<0,3, 2,1, 1,1, 0,1>>),
  T32("QADD_QSUB_T1", \hFFF0, \hF0D0, \hFA80, \hF080, <<0,3, 1,2, 0,1>>),
  A32("QADD_QSUB_A1", \h0FD0, \h00F0, \h0100, \h0050, <<0,3, 1,2, 0,1>>),
  T32("QADD_ETC_T1", \hFFA0, \hF0B0, \hFA80, \hF010, <<0,3, 1,2, 0,1>>),
  A32("QADD_ETC_A1", \h0FB0, \h0010, \h0620, \h0010, <<0,3, 1,2, 0,1>>),
  T32("QASX_QSAX_UQASX_UQSAX_T1", \hFFB0, \hF0B0, \hFAA0, \hF010, <<0,3, 1,2, 0,1>>),
  T32("QDADD_QDSUB_T1", \hFFF0, \hF0D0, \hFA80, \hF090, <<0,4, 1,1, 0,1>>),
  A32("QDADD_QDSUB_A1", \h0FD0, \h00F0, \h0140, \h0050, <<0,4, 1,1, 0,1>>),
  A32("RBIT_A1", \h0FF0, \h00F0, \h06F0, \h0030, <<0,3, 1,1, 0,1>>),
  A32("REV_REV16_A1", \h0FF0, \h0070, \h06B0, \h0030, <<0,3, 1,1, 0,1>>),
  A32("REVSH_A1", \h0FF0, \h00F0, \h06F0, \h00B0, <<0,3, 1,1, 0,1>>),
  A32("ADD_ETC_A1", \h0F90, \h0070, \h0610, \h0010, <<0,3, 2,2, 0,1>>),
  T32("ADD_ETC_T1", \hFFE0, \hF090, \hFA80, \hF000, <<0,3, 2,2, 0,1>>),
  A32("SASX_SHASX_UASX_UHASX_A1", \h0F90, \h00F0, \h0610, \h0030, <<3,2, 2,3, 1,1, 0,1>>),
  A32("SBFX_UBFX_A1", \h0FA0, \h0070, \h07A0, \h0050, <<0,3, 1,1, 0,1>>) }

SaturatingTimings == {
  A32("SDIV_A1", \h0FF0, \h00F0, \h0710, \h0010, <<>>),
  A64("SDIV_A64", \h7FE0, \hFC00, \h1AC0, \h0C00, <<>>),
  A32("SEL_A1", \h0FF0, \h00F0, \h0680, \h00B0, <<0,4, 2,2, 0,1>>),
  A32("SEL_A1_Suppress", \h0FF0, \h00F0, \h0680, \h00B0, <<>>),
  A32("SHSAX_SSAX_UHSAX_USAX_A1", \h0F90, \h00F0, \h0610, \h0050, <<3,2, 2,3, 1,1, 0,1>>),
  A32("USUB_ETC_A1", \h0F90, \h0070, \h0610, \h0070, <<0,3, 2,2, 0,1>>),
  T32("SMLABB_T1", \hFFF0, \h00C0, \hFB10, \h0000, <<0,5, 2,1, 0,1>>),
  A32("SMLABB_A1", \h0FF0, \h0090, \h0100, \h0080, <<0,5, 2,1, 0,1>>),
  T32("SMLAD_T1", \hFFF0, \h00E0, \hFB20, \h0000, <<0,5, 2,1, 0,1>>),
  A32("SMLAD_A1", \h0FF0, \h00D0, \h0700, \h0010, <<0,5, 2,1, 0,1>>),
  T32("SMLAL_T1", \hFFF0, \h00F0, \hFBC0, \h0000, <<>>),
  A32("SMLAL_A1", \h0FE0, \h00F0, \h00E0, \h0090, <<>>),
  T32("SMLALBB_T1", \hFFF0, \h00C0, \hFBC0, \h0080, <<>>),
  A32("SMLALBB_A1", \h0FF0, \h0090, \h0140, \h0080, <<>>),
  T32("SMLALD_T1", \hFFF0, \h00E0, \hFBC0, \h00C0, <<>>),
  A32("SMLALD_A1", \h0FF0, \h00D0, \h0740, \h0010, <<>>),
  T32("SMLAWB_T1", \hFFF0, \h00E0, \hFB30, \h0000, <<0,5, 2,1, 0,1>>),
  A32("SMLAWB_A1", \h0FF0, \h00B0, \h0120, \h0080, <<0,5, 2,1, 0,1>>),
  A32("SMLSD_A1", \h0FF0, \h00D0, \h0700, \h0050, <<>>),
  T32("SMLSLD_T1", \hFFF0, \h00E0, \hFBD0, \h00C0, <<>>),
  A32("SMLSLD_A1", \h0FF0, \h00D0, \h0740, \h0050, <<>>),
  T32("SMMLA_T1", \hFFF0, \h00E0, \hFB50, \h0000, <<0,3, 2,1, 0,3>>),
  A32("SMMLA_A1", \h0FF0, \h00D0, \h0750, \h0010, <<0,3, 2,1, 0,3>>),
  T32("SMMLS_T1", \hFFF0, \h00E0, \hFB60, \h0000, <<0,3, 2,1, 0,3>>),
  A32("SMMLS_A1", \h0FF0, \h00D0, \h0750, \h00D0, <<0,3, 2,1, 0,3>>),
  T32("SMMUL_T1", \hFFF0, \hF0E0, \hFB50, \hF000, <<0,6>>),
  A32("SMMUL_A1", \h0FF0, \hF0D0, \h0750, \hF010, <<0,6>>),
  T32("SMUAD_T1", \hFFF0, \hF0E0, \hFB20, \hF000, <<>>),
  A32("SMUAD_A1", \h0FF0, \hF0D0, \h0700, \hF010, <<>>),
  T32("SMULBB_T1", \hFFF0, \hF0C0, \hFB10, \hF000, <<>>),
  A32("SMULBB_A1", \h0FF0, \h0090, \h0160, \h0080, <<>>) }

ExtendTimings == {
  T32("SMULL_T1", \hFFF0, \h00F0, \hFB80, \h0000, <<>>),
  A32("SMULL_A1", \h0FE0, \h00F0, \h00C0, \h0090, <<>>),
  T32("SMULWB_T1", \hFFF0, \hF0E0, \hFB30, \hF000, <<>>),
  A32("SMULWB_A1", \h0FF0, \h00B0, \h0120, \h00A0, <<>>),
  T32("SMUSD_T1", \hFFF0, \hF0E0, \hFB40, \hF000, <<>>),
  A32("SMUSD_A1", \h0FF0, \hF0D0, \h0700, \hF050, <<>>),
  A32("SSAT_USAT_no_shift_A1", \h0FA0, \h0FF0, \h06A0, \h0010, <<0,3, 2,1, 0,1>>),
  A32("SSAT_USAT_shift_A1", \h0FA0, \h0030, \h06A0, \h0010, <<0,3, 1,1, 0,1>>),
  A32("SSAT16_USAT16_A1", \h0FB0, \h00F0, \h06A0, \h0030, <<0,3, 2,1, 0,1>>),
  T32("SXTAB_T1", \hFFF0, \hF080, \hFA40, \hF080, <<0,3, 1,1, 2,1, 0,1>>),
  A32("SXTAB_SXTAB16_SXTAH_UXTAB_UXTAB16_UXTAH_A1", \h0F80, \h00F0, \h0680, \h0070, <<0,3, 1,1, 2,1, 0,1>>),
  T32("SXTAB16_T1", \hFFF0, \hF080, \hFA20, \hF080, <<0,3, 1,1, 2,1, 0,1>>),
  T32("SXTAH_T1", \hFFF0, \hF080, \hFA00, \hF080, <<0,3, 1,1, 2,1, 0,1>>),
  T16("SXTB_T1", \h0000, \hFFC0, \h0000, \hB240, <<>>),
  T32("SXTB_T2", \hFFFF, \hF080, \hFA4F, \hF080, <<0,3, 1,1, 2,1, 0,1>>),
  A32("SXTB_SXTB16_SXTH_UXTB_UXTB16_UXTH_A1", \h0F8F, \h00F0, \h068F, \h0070, <<0,3, 2,1, 0,1>>),
  T32("SXTB16_T1", \hFFFF, \hF080, \hFA2F, \hF080, <<0,3, 1,1, 2,1, 0,1>>),
  T16("SXTH_T1", \h0000, \hFFC0, \h0000, \hB200, <<>>),
  T32("SXTH_T2", \hFFFF, \hF080, \hFA0F, \hF080, <<0,3, 1,1, 2,1, 0,1>>),
  T32("UDIV_T1", \hFFF0, \h00F0, \hFBB0, \h00F0, <<>>) }

LongMultiplyTimings == {
  A32("UDIV_A1", \h0FF0, \h00F0, \h0730, \h0010, <<>>),
  T32("UMAAL_T1", \hFFF0, \h00F0, \hFBE0, \h0060, <<0,8>>),
  A32("UMAAL_A1", \h0FF0, \h00F0, \h0040, \h0090, <<0,8>>),
  T32("UMLAL_T1", \hFFF0, \h00F0, \hFBE0, \h0000, <<>>),
  T32("UMLAL_A1", \h0FE0, \h00F0, \h00A0, \h0090, <<>>),
  T32("UMULL_T1", \hFFF0, \h00F0, \hFBA0, \h0000, <<>>),
  A32("UMULL_A1", \h0FE0, \h00F0, \h0080, \h0090, <<>>),
  A32("USAD8_USADA8_A1", \h0FF0, \h00F0, \h0780, \h0010, <<0,5, 2,1, 0,1>>),
  A32("USAD8_USADA8_A1_Suppress", \h0FF0, \h00F0, \h0780, \h0010, <<>>),
  A32("VMOV_immediate_A1", \hFFB0, \h0F10, \hF220, \h0110, <<5,9, 0,1>>),
  A32("VMRS_A1", \h0FFF, \h0F10, \h0EF1, \h0A10, <<5,9, 0,1>>),
  A32("VMOV_register_A2", \h0FBF, \h0ED0, \h0EB0, \h0A40, <<5,9, 4,8, 0,1>>),
  A32("VADD2H_A32", \hFF80, \h0F10, \hF200, \h0800, <<0,6, 4,8, 0,1>>),
  A32("VADDHN_A32", \hFF80, \h0F50, \hF280, \h0400, <<0,6, 3,8, 0,1>>),
  A32("VADDL_A32", \hFE80, \h0F50, \hF280, \h0000, <<0,6, 3,8, 0,1>>),
  A32("VADDW_A32", \hFE80, \h0F50, \hF280, \h0100, <<0,6, 4,4, 3,2, 0,1>>),
  A32("VHADD_A32", \hFE80, \h0D10, \hF200, \h0000, <<0,6, 4,8, 0,1>>),
  A32("VPADAL_A32", \hFFB3, \h0F10, \hF3B0, \h0600, <<0,6, 2,8, 0,1>>),
  A32("VPADDH_A32", \hFF80, \h0F10, \hF200, \h0B10, <<0,6, 3,8, 0,1>>),
  A32("VPADDS_A32", \hFFA0, \h0F10, \hF300, \h0D00, <<0,6, 2,8, 0,1>>),
  A32("VPADDL_A32", \hFFB3, \h0F10, \hF3B0, \h0200, <<0,6, 3,8, 0,1>>),
  A32("VRADDHN_A32", \hFF80, \h0F50, \hF380, \h0400, <<0,6, 4,8, 0,1>>),
  A32("VRHADD_A32", \hFE80, \h0F10, \hF200, \h0100, <<0,6, 4,8, 0,1>>),
  A32("VQADD_A32", \hFE80, \h0F10, \hF200, \h0010, <<0,6, 3,8, 0,1>>),
  A32("VANDQ_A32", \hFFB0, \h0F10, \hF200, \h0110, <<0,6, 5,8, 0,1>>),
  A32("VMULI_A32", \hFE80, \h0F10, \hF200, \h0910, <<0,6, 2,8, 0,1>>) }

VectorTimings == {
  A32("VBIC_A32", \hFFB0, \h0F10, \hF210, \h0110, <<0,6, 5,8, 0,1>>),
  A32("VBIF_ETC_A32", \hFF80, \h0F10, \hF300, \h0110, <<0,6, 5,12, 0,1>>),
  A32("VACGE_A32", \hFF80, \h0F10, \hF300, \h0E10, <<0,6, 4,9, 0,1>>),
  A32("VCEQ_A32", \hFFA0, \h0F10, \hF200, \h0E00, <<0,6, 4,9, 0,1>>),
  A32("VCEQI_A32", \hFF80, \h0F10, \hF300, \h0810, <<0,6, 4,9, 0,1>>),
  A32("VCEQII_A32", \hFFB3, \h0B90, \hF3B1, \h0100, <<0,6, 4,9, 0,1>>),
  A32("VTST_A32", \hFF80, \h0F10, \hF200, \h0810, <<0,6, 3,9, 0,1>>),
  A32("VCLZ_A32", \hFFB3, \h0F90, \hF3B0, \h0480, <<0,6, 4,9, 0,1>>),
  A32("VCNT_A32", \hFFB3, \h0F90, \hF3B0, \h0500, <<0,6, 4,9, 0,1>>),
  A32("VEXT_A32", \hFFB0, \h0010, \hF2B0, \h0000, <<0,6, 4,9, 0,1>>),
  A32("VMAXI_A32", \hFE80, \h0F00, \hF200, \h0600, <<0,6, 4,9, 0,1>>),
  A32("VMAXS_A32", \hFF80, \h0F10, \hF200, \h0F00, <<0,6, 2,9, 0,1>>),
  A32("VNEGI_A32", \hFFB3, \h0B90, \hF3B1, \h0380, <<0,6, 4,9, 0,1>>),
  A32("VNEGF_A32", \h0FBF, \h0ED0, \h0EB1, \h0A40, <<0,6, 2,9, 0,1>>),
  A32("VREVN_A32", \hFFB3, \h0E10, \hF3B0, \h0000, <<0,6, 4,9, 0,1>>),
  A32("VQNEG_A32", \hFFB3, \h0F90, \hF3B0, \h0780, <<0,6, 3,9, 0,1>>),
  A32("VSWP_A32", \hFFB3, \h0F90, \hF3B2, \h0000, <<0,6, 4,8, 0,1>>),
  A32("VTRN_A32", \hFFB3, \h0F90, \hF3B2, \h0080, <<0,6, 2,8, 0,1>>),
  A32("VQMOVN_A32", \hFFB3, \h0F10, \hF3B2, \h0200, <<0,6, 2,5, 0,1>>),
  A32("VUZP_A32", \hFFB3, \h0FD0, \hF3B2, \h0100, <<0,6, 3,8, 0,1>>),
  A32("VDIV32_A32", \h0FB0, \h0F50, \h0E80, \h0A00, <<0,6, 20,1, 4,2, 0,1>>),
  A32("VDIV64_A32", \h0FB0, \h0F50, \h0E80, \h0B00, <<0,6, 20,1, 4,2, 0,1>>),
  A32("VZIP_A32", \hFFB3, \h0F90, \hF3B2, \h0180, <<0,6, 4,8, 0,1>>),
  A32("VPMAX_A32", \hFE80, \h0F00, \hF200, \h0A00, <<0,6, 4,5, 0,1>>),
  A32("VPMAXF_A32", \hFF80, \h0F10, \hF300, \h0F00, <<0,6, 2,4, 0,1>>) }

SqrtTimings == {
  A32("VMOVN_A32", \hFFB3, \h0FD0, \hF3B2, \h0200, <<0,6, 4,4, 0,1>>),
  A32("VMOVL_A32", \hFE87, \h0FD0, \hF280, \h0A10, <<0,6, 4,4, 0,1>>),
  A32("VSQRT64_A32", \h0FBF, \h0FD0, \h0EB1, \h0BC0, <<>>),
  A32("VSQRT32_A32", \h0FBF, \h0FD0, \h0EB1, \h0AC0, <<>>) }

AllTimings == DefaultTimings \cup BitTimings \cup SaturatingTimings \cup ExtendTimings
              \cup LongMultiplyTimings \cup VectorTimings \cup SqrtTimings

Timing == [n \in {t.name : t \in AllTimings} |-> CHOOSE t \in AllTimings : t.name = n]

Suppressing == {"DataProcessingSuppressShift", "DataProcessingSuppressBranch",
                "SEL_A1_Suppress", "USAD8_USADA8_A1_Suppress"}

(* Cycles a timing adds to an instruction's commit. *)
ExtraCommitLat(name) ==
  CASE name \in {"VDIV64_A32", "VSQRT64_A32"}        -> 18
    [] name = "FDIV_scalar_64_A64"                   -> 15
    [] name \in {"VDIV32_A32", "VSQRT32_A32"}        -> 9
    [] name = "FDIV_scalar_32_A64"                   -> 6
    [] name \in {"MADD_A64", "UMAAL_A1", "UMAAL_T1"} -> 1
    [] OTHER                                         -> 0

Abs(n) == IF n < 0 THEN -n ELSE n
SizeInBits(n) == CHOOSE k \in 0 .. 31 : n < 2^k /\ (k = 0 \/ n >= 2^(k - 1))

(* Cycles a division adds, one for four bits of the quotient. *)
LeftMinusRight(left, right) ==
  IF SizeInBits(left) < SizeInBits(right) THEN 0 ELSE SizeInBits(left) - SizeInBits(right)

DivLat(left, right, signed) ==
  (IF signed THEN 1 ELSE 0) +
  IF right = 0 THEN 0
  ELSE LeftMinusRight(Abs(left), Abs(right) \div (IF signed THEN 4 ELSE 2)) \div 4

sdiv_lat(left, right) == DivLat(left, right, left < 0 \/ right < 0)
udiv_lat(left, right) == DivLat(left, right, FALSE)
-----------------------------------------------------------------------------
FloatSimdTimings == <<
  "VUZP_A32", "VZIP_A32", "VADD2H_A32", "VADDHN_A32", "VADDL_A32", "VADDW_A32",
  "VHADD_A32", "VPADAL_A32", "VPADDH_A32", "VPADDS_A32", "VPADDL_A32",
  "VRADDHN_A32", "VRHADD_A32", "VQADD_A32", "VANDQ_A32", "VBIC_A32",
  "VBIF_ETC_A32", "VACGE_A32", "VCEQ_A32", "VCEQI_A32", "VCEQII_A32",
  "VTST_A32", "VCLZ_A32", "VCNT_A32", "VEXT_A32", "VMAXI_A32", "VMAXS_A32",
  "VNEGI_A32", "VNEGF_A32", "VREVN_A32", "VQNEG_A32", "VSWP_A32", "VTRN_A32",
  "VPMAX_A32", "VPMAXF_A32", "VMOVN_A32", "VMRS_A1", "VMOV_immediate_A1",
  "VMOV_register_A2", "VQMOVN_A32", "VMOVL_A32", "VDIV32_A32", "VDIV64_A32",
  "VSQRT32_A32", "VSQRT64_A32", "VMULI_A32", "FMADD_A64", "FMSUB_D_A64",
  "FMOV_A64", "ADD_SUB_vector_scalar_A64", "ADD_SUB_vector_vector_A64",
  "FDIV_scalar_32_A64", "FDIV_scalar_64_A64", "DefaultA64Vfp", "DefaultVfp" >>

Int2Timings == <<
  "SSAT_USAT_no_shift_A1", "SSAT_USAT_shift_A1", "SSAT16_USAT16_A1",
  "QADD_QSUB_A1", "QADD_QSUB_T1", "QADD_ETC_A1", "QASX_QSAX_UQASX_UQSAX_T1",
  "QADD_ETC_T1", "USUB_ETC_A1", "ADD_ETC_A1", "ADD_ETC_T1", "QDADD_QDSUB_A1",
  "QDADD_QDSUB_T1", "SASX_SHASX_UASX_UHASX_A1", "SHSAX_SSAX_UHSAX_USAX_A1",
  "SXTB_SXTB16_SXTH_UXTB_UXTB16_UXTH_A1",
  "SXTAB_SXTAB16_SXTAH_UXTAB_UXTAB16_UXTAH_A1", "SXTAB_T1", "SXTAB16_T1",
  "SXTAH_T1", "SXTB_T2", "SXTB16_T1", "SXTH_T2", "PKH_A1", "PKH_T1",
  "SBFX_UBFX_A1", "SEL_A1_Suppress", "RBIT_A1", "REV_REV16_A1", "REVSH_A1",
  "USAD8_USADA8_A1_Suppress", "BFI_A1", "BFI_T1", "CMN_register_A1",
  "CMN_immediate_A1", "CMP_register_A1", "CMP_immediate_A1",
  "DataProcessingNoShift", "DataProcessingAllowShifti", "CLZ_A1", "CLZ_T1",
  "DataProcessingSuppressShift", "Cxxx_A64", "DefaultA64Int", "DefaultInt" >>

(* The mutant gives both integer units the second one's list. *)
IntTimingsCopied == Int2Timings
IntTimings == <<
  "SSAT_USAT_no_shift_A1", "SSAT_USAT_shift_A1", "SSAT16_USAT16_A1",
  "QADD_QSUB_A1", "QADD_QSUB_T1", "QADD_ETC_A1", "QASX_QSAX_UQASX_UQSAX_T1",
  "QADD_ETC_T1", "USUB_ETC_A1", "ADD_ETC_A1", "ADD_ETC_T1", "QDADD_QDSUB_A1",
  "QDADD_QDSUB_T1", "SASX_SHASX_UASX_UHASX_A1", "SHSAX_SSAX_UHSAX_USAX_A1",
  "SXTB_SXTB16_SXTH_UXTB_UXTB16_UXTH_A1",
  "SXTAB_SXTAB16_SXTAH_UXTAB_UXTAB16_UXTAH_A1", "SXTAB_T1", "SXTAB16_T1",
  "SXTAH_T1", "SXTB_T2", "SXTB16_T1", "SXTH_T2", "PKH_A1", "PKH_T1",
  "SBFX_UBFX_A1", "SEL_A1", "RBIT_A1", "REV_REV16_A1", "REVSH_A1",
  "USAD8_USADA8_A1", "BFI_A1", "BFI_T1", "CMN_register_A1", "CMN_immediate_A1",
  "CMP_register_A1", "CMP_immediate_A1", "DataProcessingNoShift",
  "DataProcessingMovShiftr", "DataProcessingMayShift", "Cxxx_A64",
  "DefaultA64Int", "DefaultInt" >>

(* The mutant has SMMLA before SMMUL. *)
IntMulTimingsReordered == <<"SMMLA_A1", "SMMUL_A1", "MADD_A64", "DefaultA64Mul", "DefaultMul">>
IntMulTimings == <<
  "MLA_A1", "MLA_T1", "MLS_A1", "MLS_T1", "SMLABB_A1", "SMLABB_T1",
  "SMLAWB_A1", "SMLAWB_T1", "SMLAD_A1", "SMLAD_T1", "SMMUL_A1", "SMMUL_T1",
  "SMMLA_A1", "SMMLA_T1", "SMMLS_A1", "SMMLS_T1", "UMAAL_A1", "UMAAL_T1",
  "MADD_A64", "DefaultA64Mul", "DefaultMul" >>

IntDivTimings == <<"SDIV_A1", "UDIV_A1", "SDIV_A64">>
MemTimings    == <<"DefaultMem", "DefaultMem64">>

FuncUnits ==
  << [classes |-> {"IntAlu"},   timings |-> IntTimings],
     [classes |-> {"IntAlu"},   timings |-> Int2Timings],
     [classes |-> {"IntMult"},  timings |-> IntMulTimings],
     [classes |-> {"IntDiv"},   timings |-> IntDivTimings],
     [classes |-> {"FloatSimd"}, timings |-> FloatSimdTimings],
     [classes |-> {"Mem"},      timings |-> MemTimings],
     [classes |-> {"Misc"},     timings |-> <<>>] >>
-----------------------------------------------------------------------------
Matches(i, t) == Timing[t].ones \subseteq i /\ Timing[t].zeros \cap i = {}

MatchingOf(u, i) == SelectSeq(FuncUnits[u].timings, LAMBDA t : Matches(i, t))

(* gem5 takes the first timing that matches, or none. *)
FindTiming(u, i) == IF MatchingOf(u, i) = <<>> THEN "none" ELSE Head(MatchingOf(u, i))

(* The encodings that are tried: what two patterns of a unit that can hold *)
(* together ask for, with all other bits 0.                                *)
Together(t, s) == Timing[t].ones \cap Timing[s].zeros = {} /\ Timing[s].ones \cap Timing[t].zeros = {}

Encodings(u) == LET ts == Range(FuncUnits[u].timings)
                IN {Timing[p[1]].ones \cup Timing[p[2]].ones : p \in {q \in ts \X ts : Together(q[1], q[2])}}

UnitsFor(c) == {u \in DOMAIN FuncUnits : c \in FuncUnits[u].classes}

Fetched == UNION {{<<c, i>> : c \in FuncUnits[u].classes, i \in Encodings(u)} : u \in DOMAIN FuncUnits}

HpiInit ==
  /\ instr = {} /\ class = "Misc" /\ free = {} /\ offer = 8
  /\ timing = "waiting" /\ operands = <<0, 0>>

(* The next instruction, in a cycle in which some units are taken. *)
Fetch ==
  /\ offer = 8 \/ timing # "waiting"
  /\ \E f \in Fetched : class' = f[1] /\ instr' = f[2]
  /\ free' \in SUBSET UnitsFor(class')
  /\ operands' \in IF class' = "IntDiv" THEN Operands \X Operands ELSE {<<0, 0>>}
  /\ offer' = 1
  /\ timing' = "waiting"

(* A unit refuses another class, what comes while it is busy, and what its *)
(* extra decoding suppresses.                                              *)
Refuses(u) == \/ class \notin FuncUnits[u].classes
              \/ u \notin free
              \/ FindTiming(u, instr) \in Suppressing

Issue ==
  /\ offer < 8 /\ timing = "waiting"
  /\ IF Refuses(offer)
     THEN offer' = offer + 1 /\ UNCHANGED timing
     ELSE timing' = FindTiming(offer, instr) /\ UNCHANGED offer
  /\ UNCHANGED <<instr, class, free, operands>>

HpiNext == Fetch \/ Issue
-----------------------------------------------------------------------------
(* "Keep the order below": a timing that loses to an earlier one in its    *)
(* list either is not the more specific of the two, or has the latencies   *)
(* of the winner.                                                          *)
MoreSpecific(t, s) ==
  /\ Timing[s].ones \subseteq Timing[t].ones /\ Timing[s].zeros \subseteq Timing[t].zeros
  /\ Timing[t] # Timing[s]

Losers == {t \in Range(MatchingOf(offer, instr)) :
             <<Timing[t].lats, ExtraCommitLat(t)>> # <<Timing[timing].lats, ExtraCommitLat(timing)>>}

(* The orders the comments ask for: VUZP and VZIP before VADDL and VADDW,  *)
(* SXTB and its like before SXTAB, SMMUL before SMMLA.  They were not      *)
(* asked for four others: encodings of VCEQ, VREV, VSWP and VTRN are timed *)
(* as VADDL or VADDW.                                                      *)
TimingOrder ==
  timing \notin {"waiting", "none"} =>
    /\ \A t \in Losers : ~MoreSpecific(t, timing)
    /\ timing \in {"VADDL_A32", "VADDW_A32"} =>
         Losers \cap {"VUZP_A32", "VZIP_A32"} = {}
    /\ timing = "SXTAB_SXTAB16_SXTAH_UXTAB_UXTAB16_UXTAH_A1" =>
         "SXTB_SXTB16_SXTH_UXTB_UXTB16_UXTH_A1" \notin Losers
    /\ timing = "SMMLA_A1" => "SMMUL_A1" \notin Losers
    /\ \A t \in Losers : \/ MoreSpecific(timing, t)
                         \/ timing \in {"VADDHN_A32", "VADDL_A32", "VADDW_A32", "VRADDHN_A32"}
                         \/ <<timing, t>> = <<"VZIP_A32", "VADDW_A32">>
                         \/ /\ timing \in {"CMN_register_A1", "CMP_register_A1"}
                            /\ t = "DataProcessingNoShift"

(* An instruction that one integer unit suppresses issues to the other: it *)
(* waits only while a unit for it is busy.  A division adds a cycle for    *)
(* four bits of its quotient, with less than four bits over.               *)
SuppressedIssueElsewhere ==
  /\ offer = 8 /\ class # "Misc" => ~(UnitsFor(class) \subseteq free)
  /\ timing \in Range(IntDivTimings) /\ operands[2] # 0 =>
       LET left == operands[1]
           right == operands[2]
           lat == IF timing = "UDIV_A1" THEN udiv_lat(Abs(left), Abs(right)) ELSE sdiv_lat(left, right)
       IN SizeInBits(Abs(left) \div Abs(right)) <= 4 * lat + 3
=============================================================================
