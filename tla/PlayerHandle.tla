---------------------------- MODULE PlayerHandle ----------------------------
(***************************************************************************)
(* The handle of the C API (player/Aml_MP_Player.cpp, and likewise         *)
(* mediaplayer/Aml_MP_MediaPlayer.cpp, over utils/AmlMpHandle.h).  A       *)
(* handle is a pointer to the object with one strong reference of its own. *)
(* A call turns it into a strong pointer for as long as it runs, so a call *)
(* that has entered may overlap with Destroy.                              *)
(*                                                                         *)
(* A client may use a handle until it calls Destroy, and lets no call      *)
(* enter while Destroy does: nothing in the code could tell a pointer to a *)
(* deleted object from another.                                            *)
(***************************************************************************)
EXTENDS RefBase

\* The entry points that cast the handle, fail with -1 if that gives nothing,
\* and else pass the call on to the object: the calls a thread may be in.
Settings == {"RegisterEventCallBack", "SetVideoParams", "SetAudioParams",
             "SetSubtitleParams", "SetCasSession"}
Transport == {"Start", "Stop", "Pause", "Resume", "Flush", "SetPlaybackRate",
              "GetPlaybackRate", "SwitchAudioTrack", "SwitchSubtitleTrack"}
Data == {"WriteData", "WriteEsData", "GetCurrentPts", "GetFirstPts", "GetBufferStat"}
Output == {"SetANativeWindow", "SetVideoWindow", "SetVolume", "GetVolume",
           "ShowVideo", "HideVideo", "ShowSubtitle", "HideSubtitle",
           "SetParameter", "GetParameter", "SetSubtitleWindow"}
Decoding == {"SetAVSyncSource", "SetPcrPid", "StartVideoDecoding",
             "StopVideoDecoding", "StartAudioDecoding", "StopAudioDecoding",
             "StartSubtitleDecoding", "StopSubtitleDecoding", "SetADParams",
             "StartADDecoding", "StopADDecoding", "GetDecodingState",
             "SetADVolume", "GetADVolume"}
\* The two that do more: SetCASParams also refuses a CAS type it does not know,
\* Destroy goes on to give up the handle's own reference.
EntryPoints == {Settings, Transport, Data, Output, Decoding,
                {"SetCASParams", "Destroy"}}

\* Create: player->incStrong on top of the local strong pointer.
Create(t) ==
    /\ Idle(t) /\ t = Maker /\ sptrs[t] > 1 /\ handle = "none"
    /\ handle' = "open"
    /\ sptrs' = [sptrs EXCEPT ![t] = @ - 1]
    /\ UNCHANGED <<mStrong, mWeak, object, impl, wptrs, doing, curCount>>

\* aml_handle_cast: the strong pointer that a call holds until it returns.
Enter(t, calls) ==
    /\ handle = "open" /\ calls # {}
    /\ incStrong(t)
    /\ UNCHANGED <<object, handle, sptrs>>

\* Destroy: the handle's reference goes while the call's own pointer is held.
\* A thread inside incStrong with no pointer to stand on is still entering.
Destroy(t) ==
    /\ Idle(t) /\ handle = "open" /\ sptrs[t] > 0
    /\ \A u \in Holder : doing[u] = "incStrong" => sptrs[u] > 0
    /\ handle' = "closed"
    /\ decStrong(t)
    /\ UNCHANGED sptrs

-----------------------------------------------------------------------------
Continues(t) ==
    \/ StrongCounted(t) \/ Unbias(t) \/ DeleteObject(t) \/ decWeak(t) \/ FreeRefs(t)
    \/ LoadCount(t) \/ Exchange(t) \/ AttemptFails(t)

RefNext ==
    \E t \in Holder :
        \/ FirstPointer(t) \/ CopyPointer(t) \/ DropPointer(t) \/ attemptIncStrong(t)
        \/ MakeWeak(t) \/ DropWeak(t)
        \/ \E u \in Holder : GivePointer(t, u) \/ GiveWeak(t, u)
        \/ Create(t) \/ Destroy(t) \/ \E calls \in EntryPoints : Enter(t, calls)
        \/ Continues(t)

RefSpec == RefInit /\ [][RefNext]_refvars
=============================================================================
