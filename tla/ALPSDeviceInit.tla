--------------------------- MODULE ALPSDeviceInit ---------------------------
(***************************************************************************)
(* deviceSpecificInit of VoodooPS2ALPSGlidePoint.cpp: resetMouse, then     *)
(* identify (the E6, E7 and EC reports, matchTable and the heuristics      *)
(* after it, the Rushmore trackstick probe), then the hw_init routine      *)
(* identify chose, and resetMouse again when any of it fails (init_fail). *)
(*                                                                         *)
(* The routines are scripts of calls (ALPSCommandMode gives each call's   *)
(* requests); each step names where the code goes when the call fails.   *)
(* One step of the model is one call, with every request it submits.      *)
(***************************************************************************)
EXTENDS ALPSCommandMode

CONSTANTS
    Pads,       \* kinds of pad the driver may be attached to
    InitVals,   \* power-on value of the pad's registers
    Sticks      \* whether a V3 or Rushmore pad has a trackstick

ASSUME Pads \subseteq PadKinds
ASSUME InitVals \subseteq 0..255 /\ \A v \in InitVals : v & \h80 = 0
ASSUME Sticks \subseteq BOOLEAN

-----------------------------------------------------------------------------
(* The model table and identify's decision.                              *)

ALPS_DUALPOINT == \h02
ALPS_PASS == \h04

ModelInfo(sig, resp, proto, flags) ==
    [signature |-> sig, command_mode_resp |-> resp, proto_version |-> proto, flags |-> flags]

alps_model_data ==
    << ModelInfo(<<\h32, \h02, \h14>>, 0, "V2", \h06), ModelInfo(<<\h33, \h02, \h0a>>, 0, "V1", 0),
       ModelInfo(<<\h53, \h02, \h0a>>, 0, "V2", 0),    ModelInfo(<<\h53, \h02, \h14>>, 0, "V2", 0),
       ModelInfo(<<\h60, \h03, \hc8>>, 0, "V2", 0),    ModelInfo(<<\h63, \h02, \h0a>>, 0, "V2", 0),
       ModelInfo(<<\h63, \h02, \h14>>, 0, "V2", 0),    ModelInfo(<<\h63, \h02, \h28>>, 0, "V2", \h20),
       ModelInfo(<<\h63, \h02, \h3c>>, 0, "V2", \h08), ModelInfo(<<\h63, \h02, \h50>>, 0, "V2", \h10),
       ModelInfo(<<\h63, \h02, \h64>>, 0, "V2", 0),    ModelInfo(<<\h63, \h03, \hc8>>, 0, "V2", \h06),
       ModelInfo(<<\h73, \h00, \h0a>>, 0, "V2", \h02), ModelInfo(<<\h73, \h02, \h0a>>, 0, "V2", 0),
       ModelInfo(<<\h73, \h02, \h14>>, 0, "V2", \h20), ModelInfo(<<\h20, \h02, \h0e>>, 0, "V2", \h06),
       ModelInfo(<<\h22, \h02, \h0a>>, 0, "V2", \h06), ModelInfo(<<\h22, \h02, \h14>>, 0, "V2", \h06),
       ModelInfo(<<\h62, \h02, \h14>>, 0, "V2", \h86), ModelInfo(<<\h73, \h02, \h50>>, 0, "V2", \h40),
       ModelInfo(<<\h52, \h01, \h14>>, 0, "V2", \h86),
       ModelInfo(<<\h73, \h02, \h64>>, \h8a, "V4", 0) >>

MatchTableAnyResp(e7, ec) ==
    SelectInSeq(alps_model_data, LAMBDA m : m.signature = e7)

(* The first entry whose signature is the E7 report and whose command    *)
(* mode response, if any, is the EC report's last byte; 0 if none.      *)
matchTable(e7, ec) ==
    SelectInSeq(alps_model_data,
                LAMBDA m : m.signature = e7 /\ (m.command_mode_resp = 0 \/ m.command_mode_resp = ec[3]))

(* The protocol identify settles on, with the profile flags (setDefaults *)
(* gives the heuristics' pads ALPS_DUALPOINT, V5 none); "none" when the   *)
(* pad is rejected.                                                       *)
identify(e7, ec) ==
    LET i == matchTable(e7, ec)
    IN  CASE i > 0 -> [proto |-> alps_model_data[i].proto_version, flags |-> alps_model_data[i].flags]
          [] e7 = <<\h73, \h03, \h50>> /\ ec[1] = \h73 /\ ec[2] \in {\h01, \h02} ->
                [proto |-> "V5", flags |-> 0]
          [] ec[1] = \h88 /\ ec[2] = \h08 -> [proto |-> "Rushmore", flags |-> ALPS_DUALPOINT]
          [] ec[1] = \h88 /\ ec[2] = \h07 /\ ec[3] \in \h90..\h9d ->
                [proto |-> "V3", flags |-> ALPS_DUALPOINT]
          [] OTHER -> [proto |-> "none", flags |-> 0]

(* The E6 report of an ALPS pad with no button pressed.                  *)
E6Valid(b) == (b[1] & \hf8) = 0 /\ b[2] = 0 /\ b[3] \in {10, 100}

-----------------------------------------------------------------------------
(* The routines as scripts of calls.  "fail" names where the code goes   *)
(* when the call fails: the next call, the call after next (past the     *)
(* probe's read), the probe's I/O error ("ioerror": exit, then the        *)
(* routine's error label), the routine's error label ("error":            *)
(* exitCommandMode, return false), or a plain return false ("false"),     *)
(* which deviceSpecificInit turns into init_fail: resetMouse, false.      *)

ResetStep               == [op |-> "reset"]
ReportStep(c, fail)     == [op |-> "report", cmd |-> c, fail |-> fail]
MatchStep               == [op |-> "match", fail |-> "false"]
EnterStep(fail)         == [op |-> "enter", fail |-> fail]
ExitStep                == [op |-> "exit"]
ReadStep(a, fail)       == [op |-> "read", addr |-> a, fail |-> fail]
WriteStep(m, o, fail)   == [op |-> "write", and |-> m, or |-> o, fail |-> fail]
WriteAtStep(a, v, fail) == [op |-> "writeAt", addr |-> a, value |-> v, fail |-> fail]
Ps2Step(reqs, fail)     == [op |-> "ps2", reqs |-> reqs, fail |-> fail]
ReturnStep(b)           == [op |-> "return", value |-> b]
PassthroughStep(a, e, fail) == [op |-> "passthrough", base |-> a, enable |-> e, fail |-> fail]
IfStep(cond, n)         == [op |-> "if", cond |-> cond, skip |-> n]
ProbedStep              == [op |-> "probed"]
TrackstickCheckStep(c)  == [op |-> "tscheck", clear |-> c]

(* identify up to the table match: its exitCommandMode's result is      *)
(* always true.                                                           *)
identifyReports ==
    << ReportStep(kDP.SetMouseScaling1To1, "false"), ReportStep(kDP.SetMouseScaling2To1, "false"),
       ReportStep(kDP.MouseResetWrap, "false"), ExitStep, MatchStep >>

(* probeTrackstickV3(regBase): a failed enter is an I/O error, a failed *)
(* read "no device"; the register read stays in regVal, and bit 7 of it   *)
(* is a trackstick.                                                        *)
probeTrackstickV3(regBase, ioFail) ==
    << EnterStep(ioFail), ReadStep(regBase + \h08, "next"), ExitStep >>

(* setupTrackstickV3(regBase).  Its ret: a failed passthroughModeV3(true) *)
(* returns an I/O error at once ("ts_fail"); a failed E7 report is "no   *)
(* device", any later failure an I/O error, and both go to its error      *)
(* label, passthroughModeV3(false), whose failure is an I/O error too.    *)
setupTrackstickV3(regBase) ==
    << PassthroughStep(regBase, TRUE, "ts_fail"),
       Ps2Step(repeatCmd(FALSE, 0, kDP.SetMouseScaling2To1), "ts_nodev"),
       Ps2Step(<< [i \in 1..3 |-> Send(kDP.SetMouseScaling1To1)] >>, "ts_ioerr"),
       Ps2Step(<< commandModeSendNibble("V3", \h9), commandModeSendNibble("V3", \h4) >>, "ts_ioerr"),
       EnterStep("ts_ioerr"), WriteAtStep(regBase + \h08, \h82, "ts_ioerr"), ExitStep,
       PassthroughStep(regBase, FALSE, "ts_off_fail") >>

(* The trackstick set-up as a routine runs it: only when cond holds, and  *)
(* an I/O error goes to the routine's error label.  On Rushmore "no       *)
(* device" also clears ALPS_DUALPOINT.                                     *)
Guarded(cond, steps, clear) ==
    << IfStep(cond, Len(steps) + 1) >> \o steps \o << TrackstickCheckStep(clear) >>

SetupIf(cond, regBase, clear) == Guarded(cond, setupTrackstickV3(regBase), clear)

absoluteModeV3 == << ReadStep(\h0004, "error"), WriteStep(\hff, \h06, "error") >>

absoluteModeV4 == << ReadStep(\h0004, "error"), WriteStep(\hff, \h02, "error") >>

hwInitV1V2(flags) ==
    LET Pass(e) == IF (flags & ALPS_PASS) /= 0 THEN << Ps2Step(passthroughModeV2(e), "false") >>
                   ELSE <<>>
    IN  Pass(TRUE) \o << Ps2Step(tapMode, "false"), Ps2Step(absoluteModeV1V2, "false") >>
        \o Pass(FALSE) \o << Ps2Step(v1v2MagicEnable, "next"), ReturnStep(TRUE) >>

(* hwInitV3: the trackstick probe and set-up, then the registers.  The    *)
(* read of 0x0007 has no goto error.                                      *)
hwInitV3 ==
    probeTrackstickV3(\h0000, "ioerror") \o SetupIf("stick", \h0000, FALSE)
    \o << EnterStep("error") >> \o absoluteModeV3
    \o << ReadStep(\h0006, "error"), WriteStep(\hff, \h01, "error"),
          ReadStep(\h0007, "next"), WriteStep(\hff, \h01, "error"),
          ReadStep(\h0144, "error"), WriteStep(0, \h04, "error"),
          ReadStep(\h0159, "error"), WriteStep(0, \h03, "error"),
          ReadStep(\h0163, "error"), WriteAtStep(\h0163, \h03, "error"),
          ReadStep(\h0162, "error"), WriteAtStep(\h0162, \h04, "error"),
          ExitStep, Ps2Step(setSampleRateAndResolution(\h28, \h02), "false"),
          ReturnStep(TRUE) >>

hwInitRushmoreV3 ==
    SetupIf("dualpoint", \hc2c0, TRUE) \o
    << EnterStep("error"), ReadStep(\hc2d9, "error"), WriteAtStep(\hc2cb, \h00, "error"),
       ReadStep(\hc2c6, "error"), WriteStep(\hfd, 0, "error"),
       WriteAtStep(\hc2c9, \h64, "error"),
       ReadStep(\hc2c4, "error"), WriteStep(\hff, \h02, "error"),
       ExitStep, Ps2Step(<< <<Send(kDP.Enable)>> >>, "false"),
       ReturnStep(TRUE) >>

hwInitV4 ==
    << EnterStep("error") >> \o absoluteModeV4
    \o << WriteAtStep(\h0007, \h8c, "error"), WriteAtStep(\h0149, \h03, "error"),
       WriteAtStep(\h0160, \h03, "error"), WriteAtStep(\h017f, \h15, "error"),
       WriteAtStep(\h0151, \h01, "error"), WriteAtStep(\h0168, \h03, "error"),
       WriteAtStep(\h014a, \h03, "error"), WriteAtStep(\h0161, \h03, "error"),
       ExitStep,
       Ps2Step(<< <<Send(kDP.SetMouseSampleRate), Send(\hc8), Send(kDP.SetMouseSampleRate),
                 Send(\h64), Send(kDP.SetMouseSampleRate), Send(\h50), Send(kDP.GetId)>> >>,
               "false"),
       Ps2Step(setSampleRateAndResolution(\h64, \h02), "false"),
       ReturnStep(TRUE) >>

hwInitDolphinV1 == << Ps2Step(hwInitDolphinV1Request, "false"), ReturnStep(TRUE) >>

(* What runs after the match: hw_init as setDefaults and identify chose  *)
(* it, after identify's Rushmore probe.                                    *)
HwInit(p, flags) ==
    CASE p \in {"V1", "V2"} -> hwInitV1V2(flags)
      [] p = "V3" -> hwInitV3
      [] p = "Rushmore" -> probeTrackstickV3(\hc2c0, "skip") \o << ProbedStep >> \o hwInitRushmoreV3
      [] p = "V4" -> hwInitV4
      [] p = "V5" -> hwInitDolphinV1
      [] p = "none" -> <<>>

Prefix(p, flags) == << ResetStep >> \o identifyReports \o HwInit(p, flags)

(* The error labels: two exits (probe, then routine), one exit, and      *)
(* init_fail's resetMouse, each falling through to return false.         *)
Script(p, flags) == Prefix(p, flags) \o << ExitStep, ExitStep, ResetStep, ReturnStep(FALSE) >>

(* setupTrackstickV3's two labels: "error", at passthroughModeV3(false), *)
(* and its return, where the routine checks ret.                           *)
LabelOf(s) ==
    CASE s.op = "tscheck" -> "ts_return"
      [] s.op = "passthrough" /\ ~s.enable -> "ts_error"
      [] OTHER -> "none"

(* The first step after pc that carries label lbl.                        *)
FirstAfter(p, flags, pc, lbl) ==
    LET S == Script(p, flags)
    IN  CHOOSE j \in pc + 1..Len(S) : LabelOf(S[j]) = lbl /\ \A i \in pc + 1..j - 1 : LabelOf(S[i]) /= lbl

TargetNoPassthroughOff(p, flags, pc, label) ==
    CASE label = "next" -> pc + 1
      [] label = "skip" -> pc + 2
      [] label = "ioerror" -> Len(Prefix(p, flags)) + 1
      [] label = "error" -> Len(Prefix(p, flags)) + 2
      [] label = "false" -> Len(Prefix(p, flags)) + 3
      [] label \in {"ts_fail", "ts_nodev"} -> FirstAfter(p, flags, pc, "ts_return")
      [] label = "ts_ioerr" -> FirstAfter(p, flags, pc, "ts_error")
      [] label = "ts_off_fail" -> pc + 1

Target(p, flags, pc, label) ==
    CASE label = "next" -> pc + 1
      [] label = "skip" -> pc + 2
      [] label = "ioerror" -> Len(Prefix(p, flags)) + 1
      [] label = "error" -> Len(Prefix(p, flags)) + 2
      [] label = "false" -> Len(Prefix(p, flags)) + 3
      [] label = "ts_fail" -> FirstAfter(p, flags, pc, "ts_return")
      [] label \in {"ts_nodev", "ts_ioerr"} -> FirstAfter(p, flags, pc, "ts_error")
      [] label = "ts_off_fail" -> pc + 1

(* setupTrackstickV3's ret after a call failed with label.               *)
FailRet(label, r) ==
    CASE label = "ts_nodev" -> "NoDevice"
      [] label \in {"ts_fail", "ts_ioerr", "ts_off_fail"} -> "IOError"
      [] OTHER -> r

-----------------------------------------------------------------------------
VARIABLES
    proto,    \* modelData.proto_version as identify set it, "none" before
    flags,    \* modelData.flags
    report,   \* the E6, E7 and EC reports identify received
    pc,       \* deviceSpecificInit's next call
    regVal,   \* the routine's local regVal
    done,     \* deviceSpecificInit has returned
    result,   \* what it returned
    fails,    \* transport failures so far
    pad,      \* the pad
    ret       \* setupTrackstickV3's ret

vars == <<proto, flags, report, pc, regVal, done, result, fails, pad, ret>>

ReportCmds == {kDP.SetMouseScaling1To1, kDP.SetMouseScaling2To1, kDP.MouseResetWrap}

Step == Script(proto, flags)[pc]

(* The next call after one that returned ok, or the one its failure      *)
(* label names.                                                           *)
Goto(ok) ==
    /\ pc' = IF ok THEN pc + 1 ELSE Target(proto, flags, pc, Step.fail)
    /\ ret' = IF ok THEN ret ELSE FailRet(Step.fail, ret)

Byte(x) == x % 256

Init ==
    /\ proto = "none"
    /\ flags = 0
    /\ report = [c \in ReportCmds |-> <<0, 0, 0>>]
    /\ pc = 1
    /\ regVal = 0
    /\ done = FALSE
    /\ result = FALSE
    /\ fails = 0
    /\ \E k \in Pads, v \in InitVals, ts \in Sticks :
         (ts => k \in {"V3", "Rushmore"}) /\ pad = PadInit(k, v, ts)
    /\ ret = "Success"

(* The pad and the failure count after one outcome of a call.            *)
Perform(o) == pad' = o.dev /\ fails' = o.fails

ResetMouse ==
    /\ ~done /\ Step.op = "reset"
    /\ \E o \in Calls(pad, fails, resetMouse) : Perform(o)
    /\ pc' = pc + 1
    /\ UNCHANGED <<proto, flags, report, regVal, done, result, ret>>

(* repeatCmd(kDP_SetMouseResolution, NULL, c, &report) in identify; the  *)
(* E6 report must also look like an ALPS pad's.                          *)
IdentifyReport ==
    /\ ~done /\ Step.op = "report"
    /\ \E o \in Calls(pad, fails, repeatCmd(TRUE, 0, Step.cmd)) :
         LET b == ReportBytes(o.data)
         IN  /\ Perform(o)
             /\ report' = [report EXCEPT ![Step.cmd] = b]
             /\ Goto(o.ok /\ (Step.cmd = kDP.SetMouseScaling1To1 => E6Valid(b)))
    /\ UNCHANGED <<proto, flags, regVal, done, result>>

IdentifyMatch ==
    /\ ~done /\ Step.op = "match"
    /\ LET id == identify(report[kDP.SetMouseScaling2To1], report[kDP.MouseResetWrap])
       IN  /\ proto' = id.proto
           /\ flags' = id.flags
           /\ Goto(id.proto /= "none")
    /\ UNCHANGED <<report, regVal, done, result, fails, pad>>

EnterCommandMode ==
    /\ ~done /\ Step.op = "enter"
    /\ \E o \in Calls(pad, fails, repeatCmd(FALSE, 0, kDP.MouseResetWrap)) :
         Perform(o) /\ Goto(EnterReportOK(o.data))
    /\ UNCHANGED <<proto, flags, report, regVal, done, result>>

ExitCommandMode ==
    /\ ~done /\ Step.op = "exit"
    /\ \E o \in Calls(pad, fails, exitCommandMode) : Perform(o)
    /\ pc' = pc + 1
    /\ UNCHANGED <<proto, flags, report, regVal, done, result, ret>>

CommandModeReadReg ==
    /\ ~done /\ Step.op = "read"
    /\ \E o \in Calls(pad, fails, commandModeReadReg(proto, Step.addr)) :
         /\ Perform(o)
         /\ regVal' = ReadRegResult(Step.addr, o)
         /\ Goto(regVal' /= NoValue)
    /\ UNCHANGED <<proto, flags, report, done, result>>

CommandModeWriteReg ==
    /\ ~done /\ Step.op = "write"
    /\ \E o \in Calls(pad, fails, commandModeWriteReg(proto, (Byte(regVal) & Step.and) | Step.or)) :
         Perform(o) /\ Goto(o.ok)
    /\ UNCHANGED <<proto, flags, report, regVal, done, result>>

CommandModeWriteRegAt ==
    /\ ~done /\ Step.op = "writeAt"
    /\ \E o \in Calls(pad, fails, commandModeSetAddr(proto, Step.addr)
                                    \o commandModeWriteReg(proto, Step.value)) :
         Perform(o) /\ Goto(o.ok)
    /\ UNCHANGED <<proto, flags, report, regVal, done, result>>

Ps2Request ==
    /\ ~done /\ Step.op = "ps2"
    /\ \E o \in Calls(pad, fails, Step.reqs) : Perform(o) /\ Goto(o.ok)
    /\ UNCHANGED <<proto, flags, report, regVal, done, result>>

(* setupTrackstickV3(regBase, true) and (regBase, false).                *)
PassthroughModeV3 ==
    /\ ~done /\ Step.op = "passthrough"
    /\ \E o \in passthroughModeV3(proto, pad, fails, Step.base, Step.enable) :
         Perform(o) /\ Goto(o.ok)
    /\ UNCHANGED <<proto, flags, report, regVal, done, result>>

(* probeTrackstickV3 found a trackstick: its read succeeded with bit 7.  *)
StickFound == regVal /= NoValue /\ (regVal & \h80) /= 0

(* hwInitV3's "regVal == 0 &&" and hwInitRushmoreV3's ALPS_DUALPOINT     *)
(* test before setupTrackstickV3.                                         *)
SetupBranch ==
    /\ ~done /\ Step.op = "if"
    /\ LET c == IF Step.cond = "stick" THEN StickFound ELSE (flags & ALPS_DUALPOINT) /= 0
       IN  pc' = IF c THEN pc + 1 ELSE pc + 1 + Step.skip
    /\ UNCHANGED <<proto, flags, report, regVal, done, result, fails, pad, ret>>

(* identify on Rushmore: a probe that does not return 0 clears          *)
(* ALPS_DUALPOINT.                                                         *)
ProbeTrackstick ==
    /\ ~done /\ Step.op = "probed"
    /\ flags' = IF StickFound THEN flags ELSE flags & \hfd
    /\ pc' = pc + 1
    /\ UNCHANGED <<proto, report, regVal, done, result, fails, pad, ret>>

(* setupTrackstickV3's result as the routine takes it: an I/O error goes *)
(* to its error label; on Rushmore "no device" clears ALPS_DUALPOINT.    *)
TrackstickCheck ==
    /\ ~done /\ Step.op = "tscheck"
    /\ pc' = IF ret = "IOError" THEN Target(proto, flags, pc, "error") ELSE pc + 1
    /\ flags' = IF Step.clear /\ ret = "NoDevice" THEN flags & \hfd ELSE flags
    /\ UNCHANGED <<proto, report, regVal, done, result, fails, pad, ret>>

Return ==
    /\ ~done /\ Step.op = "return"
    /\ done' = TRUE
    /\ result' = Step.value
    /\ UNCHANGED <<proto, flags, report, pc, regVal, fails, pad, ret>>

(* deviceSpecificInit has returned; the driver issues no more commands.  *)
Returned == done /\ UNCHANGED vars

Next ==
    \/ ResetMouse \/ IdentifyReport \/ IdentifyMatch
    \/ EnterCommandMode \/ ExitCommandMode
    \/ CommandModeReadReg \/ CommandModeWriteReg \/ CommandModeWriteRegAt
    \/ Ps2Request \/ PassthroughModeV3 \/ SetupBranch \/ ProbeTrackstick
    \/ TrackstickCheck \/ Return \/ Returned

Spec == Init /\ [][Next]_vars

-----------------------------------------------------------------------------
(* What each routine sets up: the registers it programs, as the value    *)
(* (v & and) | or of the register's power-on value v.                     *)

Prog(a, m, o) == [addr |-> a, and |-> m, or |-> o]

Programmed(p) ==
    CASE p = "V3" ->
            {Prog(\h0004, \hff, \h06), Prog(\h0006, \hff, \h01), Prog(\h0007, \hff, \h01),
             Prog(\h0144, 0, \h04), Prog(\h0159, 0, \h03), Prog(\h0163, 0, \h03),
             Prog(\h0162, 0, \h04)}
      [] p = "Rushmore" ->
            {Prog(\hc2cb, 0, \h00), Prog(\hc2c6, \hfd, 0), Prog(\hc2c9, 0, \h64),
             Prog(\hc2c4, \hff, \h02)}
      [] p = "V4" ->
            {Prog(\h0004, \hff, \h02), Prog(\h0007, 0, \h8c), Prog(\h0149, 0, \h03),
             Prog(\h0160, 0, \h03), Prog(\h017f, 0, \h15), Prog(\h0151, 0, \h01),
             Prog(\h0168, 0, \h03), Prog(\h014a, 0, \h03), Prog(\h0161, 0, \h03)}
      [] OTHER -> {}

(* setupTrackstickV3 writes 0x82 to regBase + 8, which passthroughModeV3 *)
(* (false) then reads back and writes with bit 0 clear.                   *)
StickProgrammed ==
    IF pad.stick /\ proto \in {"V3", "Rushmore"}
    THEN {Prog(StickRegister(pad.kind), 0, \h82)} ELSE {}

PadBoot == BootRegs(pad.kind, pad.boot, pad.stick)

Intended(w) == (PadBoot[w.addr] & w.and) | w.or

ProgrammedAddrs == {w.addr : w \in Programmed(proto) \cup StickProgrammed}

(* The protocol a pad of each kind speaks.                               *)
ProtoOf(k) == IF k = "Other" THEN "none" ELSE k

TypeOK ==
    /\ proto \in {"none", "V1", "V2", "V3", "Rushmore", "V4", "V5"}
    /\ flags \in 0..255
    /\ report \in [ReportCmds -> [1..3 -> 0..255]]
    /\ pc \in 1..Len(Script(proto, flags))
    /\ regVal \in -1..255
    /\ done \in BOOLEAN /\ result \in BOOLEAN
    /\ fails \in 0..MaxFail
    /\ ret \in {"Success", "NoDevice", "IOError"}
    /\ pad.kind \in Pads
    /\ pad.mode \in {"mouse", "command"} /\ pad.remote \in BOOLEAN
    /\ pad.reg \in [Registers -> 0..255]
    /\ pad.ptr \in 0..65535

(* On a transport that never fails, deviceSpecificInit accepts exactly   *)
(* the ALPS pads, identify picks the protocol the pad speaks, and the    *)
(* routine leaves the pad out of command mode, in absolute mode with    *)
(* the pass-through port closed on V1/V2, with every register it programs *)
(* (the trackstick's included) at the value the code computes and every  *)
(* other register unchanged, and a Rushmore pad keeps ALPS_DUALPOINT      *)
(* exactly when it has a trackstick: the reports, matchTable and the     *)
(* heuristics, the probe, the nibble encoding, the address command, the   *)
(* echo check of commandModeReadReg and the enter check all agree with   *)
(* the pad.  "Out of command mode" is all it claims of the mode: a V1/V2 *)
(* pad is left in remote mode by absoluteModeV1V2's F0, since the stream *)
(* mode command after it is commented out (2264-2276).                    *)
HealthyInitSucceeds ==
    (done /\ fails = 0) =>
        /\ result = (pad.kind /= "Other")
        /\ result => proto = ProtoOf(pad.kind)
        /\ pad.mode = "mouse"
        /\ result /\ pad.kind \in {"V1", "V2"} => pad.absolute /\ ~pad.passthrough
        /\ \A w \in Programmed(proto) \cup StickProgrammed : pad.reg[w.addr] = Intended(w)
        /\ \A a \in Registers \ ProgrammedAddrs : pad.reg[a] = PadBoot[a]
        /\ pad.stray = {}
        /\ result /\ proto = "Rushmore" => ((flags & ALPS_DUALPOINT) /= 0 <=> pad.stick)

(* When deviceSpecificInit succeeds on a V3 or Rushmore pad with a       *)
(* trackstick, the driver has not left its pass-through port (bit 0 of   *)
(* regBase + 8) open: the bit is clear unless it was set at power-on,     *)
(* whatever single call failed.  setupTrackstickV3 opens the port and    *)
(* must reach its error label, passthroughModeV3(false), on every path   *)
(* that does not fail the whole initialisation.                           *)
TrackstickPortClosed ==
    LET a == StickRegister(pad.kind)
    IN  (done /\ result /\ pad.stick) => (pad.reg[a] & \h01) <= (PadBoot[a] & \h01)

(* The routine only makes a register call (commandModeReadReg,           *)
(* commandModeWriteReg) to a pad in command mode: the nibble bytes would *)
(* otherwise reach a streaming pad as sample-rate, resolution and scaling *)
(* commands.  enterCommandMode's report check is what guards this.      *)
RegisterCallsInCommandMode ==
    (~done /\ Step.op \in {"read", "write", "writeAt"}) => pad.mode = "command"

(* The comment at 2267 ("ALPS needs stream mode, otherwise it won't       *)
(* report any data"): a pad that deviceSpecificInit accepts is left in   *)
(* stream mode.  This does not hold on V1/V2: see the README.             *)
InitLeavesStreamMode == (done /\ result) => ~pad.remote

(* Every register a routine programs holds its power-on value or the     *)
(* value the code computes for it, whatever the transport loses.  This   *)
(* does not hold: see the README (hwInitV3's read of 0x0007, and the     *)
(* requests hwInitV4 sends after an exitCommandMode that failed).         *)
RegistersAsIntended ==
    \A w \in Programmed(proto) : pad.reg[w.addr] \in {pad.boot, Intended(w)}

====
