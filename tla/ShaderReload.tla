---------------------------- MODULE ShaderReload ----------------------------
(***************************************************************************)
(* The frame loop as a user of a volume (MusicStudio/State.cpp,            *)
(* render_frame): each frame polls without waiting, and reloads every file *)
(* with a Modify or Create event.                                          *)
(***************************************************************************)
EXTENDS FSVolume

Init == VolumeInit

(* The rest of the frame does not touch the volume.                        *)
NextFrame ==
    /\ pc = "polled"
    /\ events = <<>>
    /\ pc' = "poll"
    /\ UNCHANGED <<diskVars, knote, mountVars, pollVars, target, failures, gap>>

HandleEvent ==
    /\ pc = "polled"
    /\ events # <<>>
    /\ events' = Tail(events)
    /\ IF Head(events).kind = "delete"
       THEN UNCHANGED <<pc, target>>
       ELSE pc' = "verify" /\ target' = Head(events).file
    /\ UNCHANGED <<diskVars, knote, mountVars, out, failures, gap>>

Frame ==
    \/ Poll \/ NextFrame \/ HandleEvent
    \/ VerifyStale \/ OpenFile("polled") \/ MapFile("polled", "polled")

Next ==
    /\ pc # "trapped"
    /\ Frame \/ \E f \in Files : Edit(f)

Spec == Init /\ [][Next]_volumeVars

(* Frames go on; whether a file is edited is up to its owner.              *)
FairSpec == Spec /\ WF_volumeVars(pc # "trapped" /\ Frame)

-----------------------------------------------------------------------------
(* The VERIFY of fs_file_reload holds: a file is reloaded for an event     *)
(* only if it is stale.                                                    *)
NeverTraps == pc # "trapped"

(* In the end the last edit of a shader is on the screen, unless there is  *)
(* no file, the volume knows that the mapping is old or has lost the file  *)
(* (a failed reload, which is not tried again by itself), or nothing       *)
(* watched the file.                                                       *)
EventuallyShown ==
    \A f \in Files :
        <>[](\/ disk[f] = None
             \/ content[f] = version[disk[f]]
             \/ stale[f] \/ fd[f] = None \/ f \in gap)
=============================================================================
