---------------------------- MODULE DeviceTables -----------------------------
(***************************************************************************)
(* The names a GPU has: Mesa's platform, the runtime's device type, and the*)
(* product and core family of the compiler; and what the compiler is told  *)
(* about a GPU, by the runtime and by the offline compiler.                *)
(***************************************************************************)
EXTENDS Naturals, Sequences

(* enum intel_platform, whose order is that of a map of platforms.         *)
intel_platform ==
  <<"GFX3", "I965", "ILK", "G4X", "SNB", "IVB", "BYT", "HSW", "BDW", "CHV", "SKL", "BXT",
    "KBL", "GLK", "CFL", "ICL", "EHL", "TGL", "RKL", "DG1", "ADL", "RPL">>

(* The one of some platforms that a map has first.                         *)
Foremost(platforms) ==
  LET isIn(k) == intel_platform[k] \in platforms
  IN intel_platform[CHOOSE k \in 1..Len(intel_platform) :
                      isIn(k) /\ \A j \in 1..k - 1 : ~isIn(j)]

(* The frequencies of timers, in Hz.                                       *)
MHz12_0 == 12000000
MHz12_5 == 12500000
MHz19_2 == 19200000

(* Mesa's intel_device_info.  The kinds of one platform do not differ here.*)
Info(ver, lp, frequency, platforms) ==
  {[platform |-> p, ver |-> ver, verx10 |-> 10 * ver, lp |-> lp,
    timestamp_frequency |-> frequency] : p \in platforms}
intel_device_info ==
  Info(8, FALSE, MHz12_5, {"BDW", "CHV"})
  \cup Info(9, FALSE, MHz12_0, {"SKL", "KBL", "CFL"})
  \cup Info(9, TRUE, MHz19_2, {"BXT", "GLK"})
  \cup Info(11, FALSE, MHz12_5, {"ICL"})
  \cup Info(11, TRUE, MHz12_5, {"EHL"})
  \cup Info(12, FALSE, MHz12_5, {"TGL", "RKL", "DG1", "ADL", "RPL"})

-----------------------------------------------------------------------------
FamilyOf ==
  [BDW |-> "BROADWELL", CHV |-> "CHERRYVIEW", SKL |-> "SKYLAKE", BXT |-> "BROXTON",
   KBL |-> "KABYLAKE", GLK |-> "GEMINILAKE", CFL |-> "COFFEELAKE", EHL |-> "ELKHARTLAKE",
   TGL |-> "TIGERLAKE_LP", RKL |-> "ROCKETLAKE", DG1 |-> "DG1"]
get_product_family(d) ==
  IF d.platform \in DOMAIN FamilyOf THEN FamilyOf[d.platform] ELSE "UNKNOWN"

(* Other families are refused.                                             *)
get_intel_platform ==
  [BROADWELL |-> "BDW", CHERRYVIEW |-> "CHV", SKYLAKE |-> "SKL", BROXTON |-> "BXT",
   KABYLAKE |-> "KBL", GEMINILAKE |-> "GLK", COFFEELAKE |-> "CFL", ELKHARTLAKE |-> "EHL",
   TIGERLAKE_LP |-> "TGL", ROCKETLAKE |-> "RKL", DG1 |-> "DG1"]

CoreOf(verx10) ==
  CASE verx10 = 60 -> "GEN6" [] verx10 = 70 -> "GEN7" [] verx10 = 75 -> "GEN7_5"
    [] verx10 = 80 -> "GEN8" [] verx10 = 90 -> "GEN9" [] verx10 = 100 -> "GEN10"
    [] verx10 = 110 -> "GEN11" [] verx10 = 120 -> "GEN12" [] OTHER -> "UNKNOWN_CORE"
LowPower == [GEN10 |-> "GEN10LP", GEN11 |-> "GEN11LP", GEN12 |-> "GEN12LP"]
get_render_core_family(d) ==
  LET core == CoreOf(d.verx10)
  IN IF d.lp /\ core \in DOMAIN LowPower THEN LowPower[core] ELSE core

intel_platform_to_device_type ==
  [BDW |-> 1, CHV |-> 2, SKL |-> 3, BXT |-> 4, KBL |-> 5, GLK |-> 6, CFL |-> 7, EHL |-> 8,
   TGL |-> 9, RKL |-> 10, DG1 |-> 11]

-----------------------------------------------------------------------------
(* What the offline compiler knows of a family.                            *)
Offline(core, frequency, families) ==
  {[product |-> f, core |-> core, frequency |-> frequency] : f \in families}
get_product_family_map ==
  Offline("GEN8", MHz12_5, {"BROADWELL", "CHERRYVIEW"})
  \cup Offline("GEN9", MHz12_0, {"SKYLAKE", "KABYLAKE", "COFFEELAKE"})
  \cup Offline("GEN9", MHz19_2, {"BROXTON", "GEMINILAKE"})
  \cup Offline("GEN11LP", MHz12_0, {"ELKHARTLAKE"})
  \cup Offline("GEN12", MHz12_0, {"TIGERLAKE_LP", "ROCKETLAKE", "DG1"})

(* IGCInterface is made of a device by the runtime.  The frequency comes   *)
(* from the kernel driver, if that has it: in any case from Gen10 on.      *)
Online(d) ==
  [product |-> get_product_family(d), core |-> get_render_core_family(d),
   frequency |-> d.timestamp_frequency]
SameTarget(t, d) ==
  /\ t.product = Online(d).product /\ t.core = Online(d).core
  /\ d.ver < 10 => t.frequency = Online(d).frequency

(* read_compiled_kernel asks by the device type.  I915RTEImpl is made for  *)
(* Gen9 devices only.                                                      *)
Supported(d) == d.ver = 9
=============================================================================
