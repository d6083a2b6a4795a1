-------------------------- MODULE ALPSCommandMode --------------------------
(***************************************************************************)
(* The PS/2 exchanges of VoodooPS2ALPSGlidePoint.cpp's set-up code: the    *)
(* command-mode register protocol, the report and knock sequences of      *)
(* identify and the V1/V2 and V5 init routines, the pad that answers     *)
(* them and the transport between the two.                                 *)
(*                                                                         *)
(* The driver talks to the pad through blocking PS/2 requests             *)
(* (submitRequestAndBlock): a request is a sequence of byte sends and     *)
(* byte reads, and the transport reports how many of them completed.  A   *)
(* failing request completes a prefix; the byte it failed on may or may   *)
(* not have reached the pad (a lost ACK).                                  *)
(*                                                                         *)
(* The pad is the environment.  Its kind fixes its identification         *)
(* reports and whether and how it speaks command mode.  As a PS/2 mouse   *)
(* it is in stream or, after F0, in remote (poll) mode, where it sends no *)
(* data until polled; EA and a reset return it to stream mode.  In        *)
(* command mode it decodes the nibble commands, collects four address      *)
(* nibbles after the address command, writes a byte to the addressed      *)
(* register for every two further nibbles, and answers a status request  *)
(* with the address and the register's value.  Its decoding is written    *)
(* separately from the driver's tables, so a wrong table entry in the     *)
(* driver shows.                                                           *)
(*                                                                         *)
(* Each driver call is the list of requests it submits; ALPSDeviceInit    *)
(* runs the calls.                                                         *)
(***************************************************************************)
EXTENDS Integers, Sequences, SequencesExt, Bitwise

CONSTANT MaxFail    \* transport failures in one initialisation

ASSUME MaxFail \in Nat

(* PS/2 command bytes the code names (standard PS/2 mouse commands).     *)
kDP == [Reset |-> \hFF, MouseSetPoll |-> \hF0, SetDefaults |-> \hF6,
        SetDefaultsAndDisable |-> \hF5,
        SetMouseScaling2To1 |-> \hE7, SetMouseScaling1To1 |-> \hE6,
        SetMouseSampleRate |-> \hF3, SetMouseResolution |-> \hE8,
        CommandNibble10 |-> \hF2, GetId |-> \hF2, Enable |-> \hF4,
        MouseResetWrap |-> \hEC, GetMouseInformation |-> \hE9,
        SetMouseStreamMode |-> \hEA]

NoValue == -1

-----------------------------------------------------------------------------
(* The driver's nibble tables and per-version profile (setDefaults).     *)

NibbleEntry(cmd, data) == [command |-> cmd, data |-> data]

alps_v3_nibble_commands ==
    LET Rate(d) == NibbleEntry(kDP.SetMouseSampleRate + \h1000, d)
        Res(d)  == NibbleEntry(kDP.SetMouseResolution + \h1000, d)
    IN  << NibbleEntry(kDP.MouseSetPoll, 0), NibbleEntry(kDP.SetDefaults, 0),
           NibbleEntry(kDP.SetMouseScaling2To1, 0),
           Rate(\h0a), Rate(\h14), Rate(\h28), Rate(\h3c), Rate(\h50), Rate(\h64),
           Rate(\hc8), NibbleEntry(kDP.CommandNibble10 + \h0100, 0),
           Res(0), Res(1), Res(2), Res(3), NibbleEntry(kDP.SetMouseScaling1To1, 0) >>

alps_v4_nibble_commands ==
    [alps_v3_nibble_commands EXCEPT ![1] = NibbleEntry(kDP.Enable, 0)]

NibbleCommands(p) ==
    IF p = "V4" THEN alps_v4_nibble_commands ELSE alps_v3_nibble_commands

AddrCommand(p) ==
    IF p = "V4" THEN kDP.SetDefaultsAndDisable ELSE kDP.MouseResetWrap

-----------------------------------------------------------------------------
(* The pad.  Kinds: "V1", "V2" (no command mode), "V3" (Pinnacle),       *)
(* "Rushmore", "V4", "V5" (Dolphin) and "Other", a plain PS/2 mouse.     *)
(* The reports are those of real pads of each kind: E7 from the model    *)
(* table or identify's heuristics, EC from the command-mode responses.   *)

PadKinds == {"V1", "V2", "V3", "Rushmore", "V4", "V5", "Other"}

StreamStatus == <<\h00, \h00, \h64>>

E7Report(k) ==
    CASE k = "V1" -> <<\h33, \h02, \h0a>>
      [] k = "V2" -> <<\h62, \h02, \h14>>
      [] k \in {"V3", "V4"} -> <<\h73, \h02, \h64>>
      [] k = "Rushmore" -> <<\h73, \h03, \h0a>>
      [] k = "V5" -> <<\h73, \h03, \h50>>
      [] k = "Other" -> <<\h10, \h00, \h64>>

HasCommandMode(k) == k \in {"V3", "Rushmore", "V4", "V5"}

ECReport(k) ==
    CASE k = "V3" -> <<\h88, \h07, \h9d>>
      [] k = "Rushmore" -> <<\h88, \h08, \h1d>>
      [] k = "V4" -> <<\h88, \h07, \h8a>>
      [] k = "V5" -> <<\h73, \h02, \h00>>
      [] OTHER -> StreamStatus

(* The nibble a command byte (and, for the rate and resolution commands,  *)
(* its argument) stands for in the pad's command mode.                     *)
RateArgs == <<\h0a, \h14, \h28, \h3c, \h50, \h64, \hc8>>
TakesArg(b) == b \in {\hF3, \hE8}
PadNibbles(k, b, arg) ==
    CASE b = \hF3 -> {2 + i : i \in {i \in 1..7 : RateArgs[i] = arg}}
      [] b = \hE8 -> IF arg \in 0..3 THEN {11 + arg} ELSE {}
      [] b = (IF k = "V4" THEN \hF4 ELSE \hF0) -> {0}
      [] b = \hF6 -> {1}
      [] b = \hE7 -> {2}
      [] b = \hF2 -> {10}
      [] b = \hE6 -> {15}
      [] OTHER -> {}

PadAddrCommand(k) == IF k = "V4" THEN \hF5 ELSE \hEC

Registers == {\h0004, \h0006, \h0007, \h0008, \h0144, \h0159, \h0162, \h0163,
              \hc2c8, \hc2d9, \hc2cb, \hc2c6, \hc2c9, \hc2c4,
              \h0149, \h0160, \h017f, \h0151, \h0168, \h014a, \h0161}

RegAt(d, a) == IF a \in Registers THEN d.reg[a] ELSE 0

WriteReg(d, v) ==
    IF d.ptr \in Registers THEN [d EXCEPT !.reg[d.ptr] = v]
    ELSE [d EXCEPT !.stray = @ \cup {d.ptr}]

(* A nibble: four address nibbles after the address command, most        *)
(* significant first; then every two nibbles write one byte.              *)
FeedNibble(d, n) ==
    IF d.left > 0
    THEN [d EXCEPT !.acc = @ * 16 + n, !.left = @ - 1,
                   !.ptr = IF d.left = 1 THEN d.acc * 16 + n ELSE @]
    ELSE IF d.hi = NoValue THEN [d EXCEPT !.hi = n]
    ELSE [WriteReg(d, d.hi * 16 + n) EXCEPT !.hi = NoValue]

Reply(d, out) == [dev |-> d, out |-> out]

(* A command byte in command mode.  A byte that is no valid argument of  *)
(* a pending rate or resolution command is taken as a new command.       *)
CommandByte(d, b) ==
    CASE b = PadAddrCommand(d.kind) -> Reply([d EXCEPT !.left = 4, !.acc = 0, !.hi = NoValue], <<>>)
      [] b = kDP.GetMouseInformation ->
            Reply(d, <<d.ptr \div 256, d.ptr % 256, RegAt(d, d.ptr)>>)
      [] b = kDP.SetMouseStreamMode ->
            Reply([d EXCEPT !.mode = "mouse", !.remote = FALSE, !.rep = 0, !.cnt = 0], <<>>)
      [] TakesArg(b) -> Reply([d EXCEPT !.pend = b], <<>>)
      [] PadNibbles(d.kind, b, 0) /= {} ->
            Reply(FeedNibble(d, CHOOSE n \in PadNibbles(d.kind, b, 0) : TRUE),
                  IF b = \hF2 THEN <<\h00>> ELSE <<>>)
      [] OTHER -> Reply(d, <<>>)

(* Stream mode counts runs of a repeated command: E6, E7 or EC three     *)
(* times and then E9 asks for a report (EC also enters command mode);    *)
(* on V1/V2, F5 four times and then F4 is the absolute-mode knock, and   *)
(* E7 or E6 three times and then F5 switches the pass-through port.      *)
Repeat(d, b) == [d EXCEPT !.rep = b, !.cnt = IF d.rep = b /\ @ < 4 THEN @ + 1 ELSE 1]

Run(d, b, n) == d.rep = b /\ d.cnt >= n

StatusReport(d) ==
    LET r == [d EXCEPT !.rep = 0, !.cnt = 0]
    IN  CASE Run(d, \hEC, 3) ->
               Reply([r EXCEPT !.mode = IF HasCommandMode(d.kind) THEN "command" ELSE @,
                               !.left = 0, !.hi = NoValue], ECReport(d.kind))
          [] Run(d, \hE7, 3) -> Reply(r, E7Report(d.kind))
          [] OTHER -> Reply(r, StreamStatus)

StreamByte(d, b) ==
    LET r == Repeat(d, b)
        v12 == d.kind \in {"V1", "V2"}
    IN  CASE d.pend /= NoValue -> Reply([d EXCEPT !.pend = NoValue, !.rep = 0, !.cnt = 0], <<>>)
          [] TakesArg(b) -> Reply([d EXCEPT !.pend = b, !.rep = 0, !.cnt = 0], <<>>)
          [] b = kDP.GetMouseInformation -> StatusReport(d)
          [] b = kDP.GetId -> Reply(r, <<\h00>>)
          [] b = kDP.MouseSetPoll -> Reply([r EXCEPT !.remote = TRUE], <<>>)
          [] b = kDP.SetMouseStreamMode -> Reply([r EXCEPT !.remote = FALSE], <<>>)
          [] b = \hF4 /\ v12 /\ Run(d, \hF5, 4) -> Reply([r EXCEPT !.absolute = TRUE], <<>>)
          [] b = \hF5 /\ v12 /\ Run(d, \hE7, 3) -> Reply([r EXCEPT !.passthrough = TRUE], <<>>)
          [] b = \hF5 /\ v12 /\ Run(d, \hE6, 3) -> Reply([r EXCEPT !.passthrough = FALSE], <<>>)
          [] OTHER -> Reply(r, <<>>)

(* The register whose bit 7 tells a trackstick is present, and the       *)
(* power-on register file of a pad with or without one.                    *)
StickRegister(k) == IF k = "Rushmore" THEN \hc2c8 ELSE \h0008

BootRegs(k, v, ts) == [a \in Registers |-> IF ts /\ a = StickRegister(k) THEN v | \h80 ELSE v]

(* The pad after a reset: a mouse in stream mode, registers at their      *)
(* power-on value.                                                         *)
(* A trackstick behind the pass-through port is not modelled as a device  *)
(* of its own: the pad answers every command, port open or not.           *)
PadInit(k, v, ts) ==
    [kind |-> k, boot |-> v, stick |-> ts, mode |-> "mouse", remote |-> FALSE,
     rep |-> 0, cnt |-> 0, pend |-> NoValue, left |-> 0, acc |-> 0, ptr |-> 0, hi |-> NoValue,
     reg |-> BootRegs(k, v, ts), stray |-> {}, absolute |-> FALSE, passthrough |-> FALSE]

PadByte(d, b) ==
    IF b = kDP.Reset THEN Reply(PadInit(d.kind, d.boot, d.stick), <<\hAA, \h00>>)
    ELSE IF d.mode = "mouse" THEN StreamByte(d, b)
    ELSE IF d.pend /= NoValue /\ PadNibbles(d.kind, d.pend, b) /= {}
    THEN Reply(FeedNibble([d EXCEPT !.pend = NoValue],
                          CHOOSE n \in PadNibbles(d.kind, d.pend, b) : TRUE), <<>>)
    ELSE CommandByte([d EXCEPT !.pend = NoValue], b)

-----------------------------------------------------------------------------
(* Transport.  A request completes all its commands, or an injected       *)
(* failure stops it at some command, which reached the pad or not.  A     *)
(* read the pad does not answer times out.                                *)

Send(b) == [op |-> "send", byte |-> b]
ReadByte == [op |-> "read"]
Refuse == [op |-> "refuse"]

ExecCmd(s, c) ==
    IF ~s.ok THEN s
    ELSE IF c.op = "send"
    THEN LET r == PadByte(s.dev, c.byte)
         IN  [s EXCEPT !.dev = r.dev, !.out = @ \o r.out, !.count = @ + 1]
    ELSE IF c.op = "read" /\ s.got < Len(s.out)
    THEN [s EXCEPT !.got = @ + 1, !.count = @ + 1]
    ELSE [s EXCEPT !.ok = FALSE]

Exec(d, cmds) ==
    FoldLeft(LAMBDA s, c : ExecCmd(s, c),
             [dev |-> d, out |-> <<>>, got |-> 0, count |-> 0, ok |-> TRUE], cmds)

Outcome(s, ok, f) == [dev |-> s.dev, ok |-> ok, data |-> SubSeq(s.out, 1, s.got), fails |-> f]

submitRequestAndBlock(d, cmds, f) ==
    LET whole == Exec(d, cmds)
    IN  {Outcome(whole, whole.count = Len(cmds), f)}
        \cup (IF f >= MaxFail THEN {} ELSE
                {Outcome(Exec(d, SubSeq(cmds, 1, j - 1)), FALSE, f + 1) : j \in 1..Len(cmds)}
                \cup {Outcome(Exec(d, SubSeq(cmds, 1, j)), FALSE, f + 1) :
                        j \in {j \in 1..Len(cmds) : cmds[j].op = "send"}})

(* The requests of one call, each submitted only if the previous one     *)
(* completed.                                                            *)
RECURSIVE Chain(_, _)
Chain(o, reqs) ==
    IF reqs = <<>> \/ ~o.ok THEN {o}
    ELSE UNION {Chain(r, Tail(reqs)) : r \in submitRequestAndBlock(o.dev, Head(reqs), o.fails)}

Calls(d, f, reqs) == Chain([dev |-> d, ok |-> TRUE, data |-> <<>>, fails |-> f], reqs)

-----------------------------------------------------------------------------
(* The driver's command-mode calls, as the requests they submit.         *)

(* The request for one nibble-table entry: its command byte, then its    *)
(* data byte if it sends one, then a read for each byte it receives.      *)
NibbleRequest(e) ==
    LET send    == shiftR(e.command, 12) & \hf
        receive == shiftR(e.command, 8) & \hf
    IN  IF send > 1 \/ send + receive + 1 > 2 THEN <<Refuse>>
        ELSE <<Send(e.command & \hff)>>
             \o (IF send > 0 THEN <<Send(e.data)>> ELSE <<>>)
             \o [i \in 1..receive |-> ReadByte]

commandModeSendNibble(p, n) == NibbleRequest(NibbleCommands(p)[n + 1])

commandModeSetAddrLowFirst(p, addr) ==
    << <<Send(AddrCommand(p))>> >>
    \o [k \in 1..4 |-> commandModeSendNibble(p, shiftR(addr, 4 * (k - 1)) & \hf)]

commandModeSetAddr(p, addr) ==
    << <<Send(AddrCommand(p))>> >>
    \o [k \in 1..4 |-> commandModeSendNibble(p, shiftR(addr, 16 - 4 * k) & \hf)]

commandModeReadReg(p, addr) ==
    commandModeSetAddr(p, addr)
    \o << <<Send(kDP.GetMouseInformation), ReadByte, ReadByte, ReadByte>> >>

(* Mutant: the register read returns the last two status bytes as a word. *)
ReadRegResultWord(addr, o) ==
    IF ~o.ok \/ addr /= o.data[1] * 256 + o.data[2] THEN NoValue
    ELSE o.data[2] * 256 + o.data[3]

(* The value commandModeReadReg returns for a call's outcome.            *)
ReadRegResult(addr, o) ==
    IF ~o.ok \/ addr /= o.data[1] * 256 + o.data[2] THEN NoValue ELSE o.data[3]

commandModeWriteReg(p, v) ==
    << commandModeSendNibble(p, shiftR(v, 4) & \hf), commandModeSendNibble(p, v & \hf) >>

(* repeatCmd: with an init command it sends E8 and init_arg first (the   *)
(* init command's own value is not used), then the command three times   *)
(* and E9, and reads the three report bytes.                              *)
repeatCmd(init, arg, c) ==
    << (IF init THEN <<Send(kDP.SetMouseResolution), Send(arg)>> ELSE <<>>)
       \o <<Send(c), Send(c), Send(c), Send(kDP.GetMouseInformation), ReadByte, ReadByte, ReadByte>> >>

(* The report repeatCmd hands back: a byte that was not read is 0.      *)
ReportBytes(data) == [k \in 1..3 |-> IF k <= Len(data) THEN data[k] ELSE 0]

EnterReportAlways(data) == TRUE

(* enterCommandMode ignores repeatCmd's result and tests the report      *)
(* bytes.                                                                *)
EnterReportOK(data) ==
    LET b == ReportBytes(data)
    IN  ~((b[1] /= \h88 \/ (b[2] /= \h07 /\ b[2] /= \h08)) /\ b[1] /= \h73)

exitCommandMode == << <<Send(kDP.SetMouseStreamMode)>> >>

setSampleRateAndResolution(rate, res) ==
    << <<Send(kDP.SetMouseSampleRate), Send(rate), Send(kDP.SetMouseResolution),
         Send(res), Send(kDP.Enable)>> >>

resetMouse == << <<Send(kDP.Reset), ReadByte, ReadByte>> >>

(* passthroughModeV3(regBase, enable): enterCommandMode, read the        *)
(* register at regBase + 8, write it back with bit 0 set or cleared, and  *)
(* exitCommandMode (always true).  A failed enter returns false at once;  *)
(* a failed read or write still exits.  The set of outcomes of the call. *)
passthroughModeV3(p, d, f, regBase, enable) ==
    LET Exit(o, ok) == {[x EXCEPT !.ok = ok] : x \in Calls(o.dev, o.fails, exitCommandMode)}
        Set(v)      == IF enable THEN v | \h01 ELSE v & \hfe
        Write(r)    == LET v == ReadRegResult(regBase + \h08, r)
                       IN  IF v = NoValue THEN Exit(r, FALSE)
                           ELSE UNION {Exit(w, w.ok) : w \in Calls(r.dev, r.fails,
                                                          commandModeWriteReg(p, Set(v)))}
    IN  UNION {IF ~EnterReportOK(e.data) THEN {[e EXCEPT !.ok = FALSE]}
               ELSE UNION {Write(r) : r \in Calls(e.dev, e.fails, commandModeReadReg(p, regBase + \h08))}
               : e \in Calls(d, f, repeatCmd(FALSE, 0, kDP.MouseResetWrap))}

-----------------------------------------------------------------------------
(* The V1/V2 and V5 set-up requests.                                      *)

passthroughModeV2(enable) ==
    LET c == IF enable THEN kDP.SetMouseScaling2To1 ELSE kDP.SetMouseScaling1To1
    IN  << <<Send(c), Send(c), Send(c), Send(kDP.SetDefaultsAndDisable)>> >>

(* tapMode(true), then getStatus (repeatCmd of F5 without init).         *)
tapMode ==
    << <<Send(kDP.GetMouseInformation), ReadByte, ReadByte, ReadByte,
         Send(kDP.SetDefaultsAndDisable), Send(kDP.SetDefaultsAndDisable),
         Send(kDP.SetMouseSampleRate), Send(\h0a)>> >>
    \o repeatCmd(FALSE, 0, kDP.SetDefaultsAndDisable)

v1v2MagicEnable ==
    << [i \in 1..4 |-> Send(kDP.SetDefaultsAndDisable)] \o <<Send(kDP.Enable)>> >>

absoluteModeV1V2 == v1v2MagicEnable \o << <<Send(kDP.MouseSetPoll)>> >>

hwInitDolphinV1Request ==
    << [i \in 1..16 |-> Send(<<\hE8, \h00, \hE7, \hE7, \hE7, \hE9, \hEC, \hEC, \hEC, \hE9,
                               \hEA, kDP.SetMouseStreamMode, kDP.SetMouseSampleRate, \h64,
                               kDP.SetMouseSampleRate, \h28>>[i])] >>

====
