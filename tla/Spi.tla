--------------------------------- MODULE Spi --------------------------------
(***************************************************************************)
(* SPI.cpp: begin(), end() and beginTransaction(), which initialises the   *)
(* hardware again when other settings are asked for.  The calls of the     *)
(* hardware library may fail; cyhal_spi_init() does when the object is in  *)
(* use, and leaves it as it was.  endTransaction() does nothing.           *)
(***************************************************************************)
EXTENDS Naturals

CONSTANT Clocks   \* the clock frequencies of the settings

ASSUME SpiAssumption == Clocks # {}

VARIABLES
  spiInitialized,   \* _is_initialized
  spiSettings,      \* _settings
  spiHal,           \* what _spi_obj was initialised with; clock 0 before it is set
  spiAllocated,     \* _spi_obj is allocated
  spiAsked          \* the settings of the last transaction, the initial ones before

spiVars == <<spiInitialized, spiSettings, spiHal, spiAllocated, spiAsked>>

\* SPI_MODE0 to SPI_MODE3 and values that are none of them.
DataModes == 0 .. 4
SpiSettings == [clock : Clocks, order : {"MSBFIRST", "LSBFIRST"}, dataMode : DataModes]

SpiInit ==
  /\ spiInitialized = FALSE /\ spiAllocated = FALSE
  /\ spiHal = [mode |-> <<0, "MSBFIRST">>, clock |-> 0]
  /\ spiSettings \in SpiSettings /\ spiSettings.order = "MSBFIRST" /\ spiSettings.dataMode = 0
  /\ spiAsked = spiSettings

\* getSpiMode()
GetSpiMode(settings) ==
  IF settings.dataMode \in 0 .. 3 THEN <<settings.dataMode, settings.order>>
  ELSE <<0, "MSBFIRST">>

\* The end of begin() with these settings, on an object that is not initialised:
\* cyhal_spi_init() fails, then cyhal_spi_set_frequency(), or neither.
Initialize(settings, allocated) ==
  \/ /\ spiInitialized' = FALSE /\ spiAllocated' = allocated
     /\ UNCHANGED spiHal
  \/ /\ ~allocated
     /\ spiAllocated' = TRUE
     /\ \E ok \in BOOLEAN :
          /\ spiInitialized' = ok
          /\ spiHal' = [mode |-> GetSpiMode(settings), clock |-> IF ok THEN settings.clock ELSE 0]

SpiBegin ==
  /\ ~spiInitialized
  /\ Initialize(spiSettings, spiAllocated)
  /\ UNCHANGED <<spiSettings, spiAsked>>

\* cyhal_spi_clear() may fail, without an effect on what follows.
SpiEnd ==
  /\ spiInitialized
  /\ spiInitialized' = FALSE /\ spiAllocated' = FALSE
  /\ UNCHANGED <<spiSettings, spiHal, spiAsked>>

\* Mutant of SpiTransaction: begin() is called without end().
SpiTransaction_NoEnd == \E settings \in SpiSettings :
  /\ spiSettings' = settings /\ spiAsked' = settings
  /\ IF spiInitialized THEN UNCHANGED <<spiInitialized, spiHal, spiAllocated>>
     ELSE Initialize(settings, spiAllocated)

\* begin() on a new object, end() and begin() for other settings, or nothing.
SpiTransaction == \E settings \in SpiSettings :
  /\ spiSettings' = settings /\ spiAsked' = settings
  /\ IF spiInitialized /\ settings = spiSettings
       THEN UNCHANGED <<spiInitialized, spiHal, spiAllocated>>
       ELSE Initialize(settings, ~spiInitialized /\ spiAllocated)

SpiNext == SpiBegin \/ SpiEnd \/ SpiTransaction

SpiSpec == SpiInit /\ [][SpiNext]_spiVars

-----------------------------------------------------------------------------
(* Properties.                                                             *)

SpiTypeOK ==
  /\ spiInitialized \in BOOLEAN /\ spiAllocated \in BOOLEAN
  /\ spiSettings \in SpiSettings /\ spiAsked \in SpiSettings

\* An initialised SPI works with the settings of the last transaction, on an object
\* that is allocated, whatever transactions, begin() and end() came before and failed.
SettingsAreApplied ==
  spiInitialized =>
    /\ spiAllocated
    /\ spiHal.clock = spiAsked.clock
    /\ spiAsked.dataMode \in 0 .. 3 => spiHal.mode = <<spiAsked.dataMode, spiAsked.order>>
=============================================================================
