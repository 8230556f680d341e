------------------------------ MODULE PdmSketch -----------------------------
(***************************************************************************)
(* The PDM driver under the sketch it is written for                       *)
(* (libraries/PDM/examples/raw_data_output/raw_data_output.ino): setup()   *)
(* starts the driver and only then registers the callback; the callback,   *)
(* run by the interrupt, raises dataReady; loop() polls dataReady, lowers  *)
(* it and reads what is available.                                         *)
(***************************************************************************)
EXTENDS Pdm

CONSTANT FrameSize   \* FRAME_SIZE, the argument of setBufferSize()

ASSUME PdmSketchAssumption == FrameSize \in BufferSizes \ {0}

VARIABLES
  at,          \* where setup() or loop() is
  onReceive,   \* _user_onReceive is set
  dataReady,   \* the sketch's flag
  notified     \* the callback has run at least once

sketchVars == <<at, onReceive, dataReady, notified>>
allVars == <<vars, sketchVars>>

SketchInit ==
  /\ Init
  /\ at = "buffer"
  /\ onReceive = FALSE
  /\ dataReady = FALSE
  /\ notified = FALSE

\* The interrupt, with callBackFunction() when it is registered.
IsrAndCallback ==
  /\ Isr
  /\ dataReady' = (dataReady \/ onReceive)
  /\ notified' = (notified \/ onReceive)
  /\ UNCHANGED <<at, onReceive>>

\* setup(): setBufferSize, begin, onReceive.
SetupBuffer ==
  /\ at = "buffer"
  /\ SetBufferSize(FrameSize)
  /\ at' = "begin"
  /\ UNCHANGED <<onReceive, dataReady, notified>>

\* A begin() that does not succeed ends the sketch in an endless delay loop.
SetupBegin ==
  /\ at = "begin"
  /\ Begin
  /\ at' = IF pc' = "begin" THEN "started" ELSE "failed"
  /\ UNCHANGED <<onReceive, dataReady, notified>>

SetupStarted ==
  /\ at = "started"
  /\ BeginDone
  /\ at' = "onReceive"
  /\ UNCHANGED <<onReceive, dataReady, notified>>

SetupCallback ==
  /\ at = "onReceive"
  /\ onReceive' = TRUE
  /\ at' = "poll"
  /\ UNCHANGED <<vars, dataReady, notified>>

\* loop(): if (dataReady) { dataReady = false; ...
LoopPoll ==
  /\ at = "poll"
  /\ dataReady
  /\ dataReady' = FALSE
  /\ at' = "available"
  /\ UNCHANGED <<vars, onReceive, notified>>

\* ... PDM.available() ...
LoopAvailable ==
  /\ at = "available"
  /\ \/ Available /\ at' = at
     \/ AvailableReturn /\ at' = "read"
  /\ UNCHANGED <<onReceive, dataReady, notified>>

\* Mutant of LoopRead: the flag is lowered after the read.
LoopRead_ClearLast ==
  /\ at = "read"
  /\ Read(promised) \/ ReadCount \/ CopySample \/ AdvanceTail
  /\ at' = IF pc' = "idle" THEN "poll" ELSE at
  /\ dataReady' = (dataReady /\ pc' # "idle")
  /\ UNCHANGED <<onReceive, notified>>

\* ... PDM.read() of that many, and the samples are sent off.
LoopRead ==
  /\ at = "read"
  /\ Read(promised) \/ ReadCount \/ CopySample \/ AdvanceTail
  /\ at' = IF pc' = "idle" THEN "poll" ELSE at
  /\ UNCHANGED <<onReceive, dataReady, notified>>

SketchStep ==
  \/ SetupBuffer
  \/ SetupBegin
  \/ SetupStarted
  \/ SetupCallback
  \/ LoopPoll
  \/ LoopAvailable
  \/ LoopRead

SketchNext == IsrAndCallback \/ SketchStep

\* The sketch is the only task that wants the processor, so it keeps running;
\* nothing is assumed of the hardware: the interrupt may come as often as it
\* likes, and may stop for good.
SketchSpec ==
  /\ SketchInit
  /\ [][SketchNext]_allVars
  /\ WF_allVars(SketchStep)

-----------------------------------------------------------------------------
(* Properties.                                                             *)

\* No wakeup is lost: once the callback has run, the sketch never goes back
\* to polling a lowered flag while the ring still holds samples.  (Samples
\* captured before onReceive() wait for the first callback.)
NoLostWakeup ==
  at = "poll" /\ notified /\ RingAvailable > 0 => dataReady

\* Every sample that is in the ring when a callback has run is eventually
\* read, however fast the interrupts come and also if they cease: the oldest
\* slot does not stay the oldest forever.
SamplesAreRead ==
  \A t \in 0 .. FrameSize :
    notified /\ RingAvailable > 0 /\ ringTail = t ~> ringTail # t

=============================================================================
