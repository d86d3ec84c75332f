\* Interrupts, console, network, post office.
SPECIFICATION Spec
CONSTANT NoPacket = NoPacket
INVARIANTS
  InterruptsSound
  MailSound
PROPERTIES
  OnTime
  EchoesUpToQuit
  BothHalt
