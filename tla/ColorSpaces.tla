------------------------------- MODULE ColorSpaces -------------------------------
(***************************************************************************)
(* The missing channels of a color as it is converted between any two of   *)
(* the color spaces (value/color_space_*.go, value/color_conversions.go).  *)
(*                                                                         *)
(* A conversion passes through hubs: srgb, xyz-d50 and lms, each of which  *)
(* finishes the spaces around it.  What is missing travels as the channels *)
(* that are nil and, past a hub, as flags.  The numbers are left out: of   *)
(* the color that results from reading what is missing as zero, the code   *)
(* asks only if it is gray, and on the way to lab if its lightness is      *)
(* zero.                                                                   *)
(***************************************************************************)
EXTENDS Integers

SpaceChannels(space) ==
    CASE space = "hsl" -> <<"hue", "saturation", "lightness">>
      [] space = "hwb" -> <<"hue", "whiteness", "blackness">>
      [] space \in {"lab", "oklab"} -> <<"lightness", "a", "b">>
      [] space \in {"lch", "oklch"} -> <<"lightness", "chroma", "hue">>
      [] space \in {"xyz", "xyz-d50"} -> <<"x", "y", "z">>
      [] OTHER -> <<"red", "green", "blue">>
ColorSpace == {"rgb", "hsl", "hwb", "srgb", "srgb-linear", "display-p3", "display-p3-linear", "a98-rgb",
               "prophoto-rgb", "rec2020", "xyz", "xyz-d50", "lab", "lch", "oklab", "oklch"}
Every == 1 .. 3

IsAnalogous(name, other) ==
    \/ name = other /\ name \in {"red", "green", "blue", "x", "y", "z", "chroma", "saturation", "lightness", "hue"}
    \/ \E pair \in {{"red", "x"}, {"green", "y"}, {"blue", "z"}, {"chroma", "saturation"}} : pair = {name, other}

\* a and b missing are chroma and hue missing, and the reverse
Normalized(flags) ==
    CASE {"a", "b"} \subseteq flags -> flags \cup {"chroma", "hue"}
      [] ~({"a", "b"} \subseteq flags) /\ {"chroma", "hue"} \subseteq flags -> flags \cup {"a", "b"}
      [] OTHER -> flags
Gone(missing, flags) == missing = Every \/ {"lightness", "chroma", "hue"} \subseteq Normalized(flags)
\* the channels of a space whose names are flagged
Flagged(space, flags) == {i \in Every : SpaceChannels(space)[i] \in flags}
-----------------------------------------------------------------------------
(* The spaces around a hub                                                 *)

\* from srgb; gray has no hue
ToHslOrHwb(dest, flags, gray) ==
    LET hue == IF "hue" \in flags \/ gray THEN {1} ELSE {}
        \* whiteness and blackness are like no other channel
        rest == IF dest = "hwb" THEN IF {"chroma", "lightness"} \subseteq flags THEN {2, 3} ELSE {}
                ELSE (IF "chroma" \in flags THEN {2} ELSE {}) \cup (IF "lightness" \in flags THEN {3} ELSE {})
    IN  hue \cup rest
LabToLch(missing, flags, gray) ==
    LET neither == {2, 3} \subseteq missing
    IN  (missing \cap {1}) \cup (IF neither \/ "chroma" \in flags THEN {2} ELSE {})
            \cup (IF neither \/ "hue" \in flags \/ gray THEN {3} ELSE {})
\* from xyz-d50 to lab and lch, from lms to oklab and oklch
ToLab(dest, flags, gray) ==
    IF dest \in {"lab", "oklab"} THEN Flagged(dest, flags)
    ELSE LabToLch(Flagged("lab", flags) \cap {1}, flags, gray)

ConvertLinear(src, dest, missing, flags, gray) ==
    LET f == Normalized(flags)
    IN  CASE dest = src -> missing
          [] dest # src /\ Gone(missing, f) -> Every
          [] dest # src /\ ~Gone(missing, f) /\ dest \in {"hsl", "hwb"} -> ToHslOrHwb(dest, f, gray)
          [] dest # src /\ ~Gone(missing, f) /\ dest \in {"lab", "lch", "oklab", "oklch"} -> ToLab(dest, f, gray)
          [] OTHER -> missing

SrgbConvert(dest, missing, flags, gray) ==
    IF Gone(missing, flags) THEN Every
    ELSE IF dest \in {"hsl", "hwb"} THEN ToHslOrHwb(dest, flags, gray)
    ELSE IF dest \in {"rgb", "srgb", "srgb-linear"} THEN missing
    ELSE ConvertLinear("srgb", dest, missing, flags, gray)
XyzD50Convert(dest, missing, flags, gray) ==
    IF Gone(missing, flags) THEN Every
    ELSE IF dest \in {"lab", "lch"} THEN ToLab(dest, Normalized(flags), gray)
    ELSE ConvertLinear("xyz-d50", dest, missing, Normalized(flags), gray)
LmsConvert(dest, missing, flags, gray) ==
    IF Gone(missing, flags) THEN Every
    ELSE IF dest \in {"oklab", "oklch"} THEN ToLab(dest, Normalized(flags), gray)
    ELSE ConvertLinear("lms", dest, missing, Normalized(flags), gray)
-----------------------------------------------------------------------------
(* The spaces                                                              *)

\* Mutant: what lch was missing is not told the hub.
LabFlagsOwn(missing, flags) == {SpaceChannels("lab")[i] : i \in missing}
\* the flags of what is missing in lab or oklab, given those of lch
LabFlags(missing, flags) ==
    LET neither == {2, 3} \subseteq missing
    IN  {SpaceChannels("lab")[i] : i \in missing} \cup (flags \cap {"chroma", "hue"})
            \cup (IF neither THEN {"chroma", "hue"} ELSE {})
\* the channels that are nil once chroma and hue both are flagged
LabMissing(missing, flags) == IF {"chroma", "hue"} \subseteq flags THEN missing \cup {2, 3} ELSE missing
LabConvert(dest, missing, flags, gray, dark) ==
    LET nil == LabMissing(missing, flags)
    IN  CASE dest = "lab" -> IF 1 \in nil \/ dark THEN nil \cup {2, 3} ELSE nil
          \* lch gives no flags here
          [] dest = "lch" -> LabToLch(nil, {}, gray)
          [] OTHER -> XyzD50Convert(dest, {}, LabFlags(nil, flags), gray)
OklabConvert(dest, missing, flags, gray) ==
    LET nil == LabMissing(missing, flags)
    IN  IF dest = "oklch" THEN LabToLch(missing, flags, gray)
        ELSE LmsConvert(dest, {}, LabFlags(nil, flags), gray)
\* lch computes a and b whatever is missing
LchFlags(missing) == {SpaceChannels("lch")[i] : i \in missing \cap {2, 3}}
HslConvert(dest, missing, gray) ==
    SrgbConvert(dest, {}, {IF i = 2 THEN "chroma" ELSE SpaceChannels("hsl")[i] : i \in missing}, gray)
HwbConvert(dest, missing, gray) ==
    LET whole == SrgbConvert(dest, {}, {SpaceChannels("hwb")[i] : i \in missing \cap {1}}, gray)
    IN  IF missing = Every THEN Every
        ELSE IF ~({2, 3} \subseteq missing) THEN whole
        ELSE CASE dest = "hsl" -> {2, 3}
               [] dest \in {"lch", "oklch"} -> {1, 2}
               [] OTHER -> whole
SrgbLinearConvert(dest, missing, gray) ==
    IF dest \in {"srgb", "rgb", "hsl", "hwb"} THEN SrgbConvert(dest, missing, {}, gray)
    ELSE ConvertLinear("srgb-linear", dest, missing, {}, gray)
DisplayP3Convert(src, dest, missing, gray) ==
    IF {src, dest} = {"display-p3", "display-p3-linear"} THEN missing
    ELSE ConvertLinear(src, dest, missing, {}, gray)

\* the channels missing in dest, of a color in src
ConvertMissing(src, dest, missing, gray, dark) ==
    CASE src = dest -> missing
      [] src # dest /\ src = "hsl" -> HslConvert(dest, missing, gray)
      [] src # dest /\ src = "hwb" -> HwbConvert(dest, missing, gray)
      [] src # dest /\ src \in {"rgb", "srgb"} -> SrgbConvert(dest, missing, {}, gray)
      [] src # dest /\ src = "srgb-linear" -> SrgbLinearConvert(dest, missing, gray)
      [] src # dest /\ src \in {"display-p3", "display-p3-linear"} -> DisplayP3Convert(src, dest, missing, gray)
      [] src # dest /\ src = "xyz-d50" -> XyzD50Convert(dest, missing, {}, gray)
      [] src # dest /\ src = "lab" -> LabConvert(dest, missing, {}, gray, dark)
      [] src # dest /\ src = "oklab" -> OklabConvert(dest, missing, {}, gray)
      [] src # dest /\ src = "lch" -> LabConvert(dest, missing \cap {1}, LchFlags(missing), gray, dark)
      [] src # dest /\ src = "oklch" -> OklabConvert(dest, missing \cap {1}, LchFlags(missing), gray)
      [] OTHER -> ConvertLinear(src, dest, missing, {}, gray)
=============================================================================
