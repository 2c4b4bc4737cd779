----------------------------- MODULE Algorithms -----------------------------
(***************************************************************************)
(* The cases of the modules about sequential code and small protocols,     *)
(* together: from the idle state a case of one of them begins, and it goes *)
(* on by the steps of its module.                                          *)
(***************************************************************************)
EXTENDS Requests, RequestSettings, ProviderErrors, Prices, ModelUse, FactoryBridge, Ranking,
        Curation, Limits, GateClient, OneShots, Uploads, CatalogCommands, KeyFile

Next ==
    \/ Talk \/ Say
    \/ Set \/ Choose
    \/ Fail \/ FailAgain
    \/ Quote \/ Bill \/ Transcribe
    \/ NameModels \/ AskModel \/ FollowReplacement \/ UseModel \/ StartHandles \/ Share
    \/ StartBridge \/ Delta \/ Finish \/ SetOptions \/ Convert
    \/ StartRank \/ HourPasses \/ ReadSource \/ StartOverlay \/ NextRow \/ ScoreModels
    \/ StartCuration \/ PickModel \/ Include \/ Exclude \/ AddAlias \/ ReplaceModel \/ Skip
    \/ SaveCurated \/ SaveExcluded \/ SaveAborted \/ Resume
    \/ StartProcess \/ Restart \/ SetModelLimit \/ ClearModelLimit
    \/ SetProviderLimit \/ ClearProviderLimit \/ CallModel \/ WakeUp \/ MinutePasses
    \/ Request \/ ReadSocket \/ TakeLine \/ BodyEnds \/ AbortCall \/ ConnectionLost
    \/ StartOneShot \/ NoAdapter \/ OpenaiImage \/ SubmitTask \/ PollTask \/ PollTimesOut
    \/ TranscribeAudio \/ Relay \/ ExchangeFails \/ CallImage \/ CallTranscription
    \/ StartUploads \/ UploadStep
    \/ OpenCatalog \/ SetField \/ RemoveField \/ AddModel
    \/ StartCli \/ NextCli \/ Onboard \/ SetupProvider \/ RemoveProvider
Spec == Init /\ [][Next]_scenario
=============================================================================
