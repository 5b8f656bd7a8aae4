------------------------------- MODULE E07Host -------------------------------
(***************************************************************************)
(* The deterministic E07 host: E07ReferenceHost of                         *)
(* tools/run_core_api_v1.py.  Its services are a record                    *)
(*   [tick, graphics, audio, input, system, frame, samples]                *)
(* of the tick count, four call counters, the frame buffer and the audio   *)
(* buffer.  A contract c is a record                                       *)
(*   [version, width, height, channels, xorG, xorB, sampleCount,           *)
(*    sampleStep, inputs, bias, tickStart, memorySize].                    *)
(* The checksum of proof_result is a function of these services and of     *)
(* the observed slot; the services themselves are compared here.           *)
(***************************************************************************)
EXTENDS IRArith, Sequences

CONSTANT Contract   \* the host contract of the packaged modules

LOCAL Word(x)   == Mask(x, TypeBits["i32"])
LOCAL Octet(x)  == Mask(x, ByteBits)
LOCAL Sample(x) == Mask(x, TypeBits["i16"])

Services(c) ==
  [tick |-> Word(c.tickStart), graphics |-> 0, audio |-> 0, input |-> 0, system |-> 0,
   frame |-> [n \in 0..(c.width * c.height * c.channels - 1) |-> 0],
   samples |-> [n \in 0..(c.sampleCount - 1) |-> 0]]

\* A pixel at (x, y), without the test of y.
FaultyDrawn(c, s, x, y, value) ==
  LET p == (y * c.width + x) * c.channels
      byte == Octet(value)
      Component(n) == CASE n = 0 -> byte
                        [] n = 1 -> Logic("xor", byte, c.xorG, ByteBits)
                        [] n = 2 -> Logic("xor", byte, c.xorB, ByteBits)
  IN  IF x < c.width
      THEN [n \in DOMAIN s.frame |-> IF n \in p..(p + 2) THEN Component(n - p) ELSE s.frame[n]]
      ELSE s.frame

\* A pixel at (x, y), if it is in the frame.
Drawn(c, s, x, y, value) ==
  LET p == (y * c.width + x) * c.channels
      byte == Octet(value)
      Component(n) == CASE n = 0 -> byte
                        [] n = 1 -> Logic("xor", byte, c.xorG, ByteBits)
                        [] n = 2 -> Logic("xor", byte, c.xorB, ByteBits)
  IN  IF x < c.width /\ y < c.height
      THEN [n \in DOMAIN s.frame |-> IF n \in p..(p + 2) THEN Component(n - p) ELSE s.frame[n]]
      ELSE s.frame

\* What call() raises for: a wrong number of arguments, a contract it cannot serve.
ServiceFails(c, symbol, args) ==
  CASE symbol = "host_graphics" -> Len(args) # 3 \/ c.channels # 3
    [] symbol = "host_audio"    -> Len(args) # 1
    [] symbol = "host_input"    -> Len(args) # 1 \/ c.inputs = <<>>
    [] symbol = "host_system"   -> Len(args) # 2
    [] OTHER                    -> TRUE

\* The services after a call that does not fail.
Served(c, s, symbol, args) ==
  CASE symbol = "host_graphics" ->
         [s EXCEPT !.graphics = Word(s.graphics + 1),
                   !.frame = Drawn(c, s, args[1], args[2], args[3])]
    [] symbol = "host_audio" ->
         [s EXCEPT !.audio = Word(s.audio + 1),
                   !.samples = [n \in DOMAIN s.samples |-> Sample(args[1] + n * c.sampleStep)]]
    [] symbol = "host_input" -> [s EXCEPT !.input = Word(s.input + 1)]
    [] symbol = "host_system" ->
         [s EXCEPT !.system = Word(s.system + 1), !.tick = Word(s.tick + 1)]

\* Its answer: <<>> is None.  The tick counts from before the call.
Reply(c, s, symbol, args) ==
  CASE symbol = "host_input"  -> <<Word(c.inputs[(args[1] % Len(c.inputs)) + 1])>>
    [] symbol = "host_system" -> <<Word(args[1] + args[2] + c.bias + s.tick)>>
    [] OTHER                  -> <<>>
=============================================================================
