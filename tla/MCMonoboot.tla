---------------------------- MODULE MCMonoboot ----------------------------
(* Three images, as in monoboot/mb.conf, one title a prefix of another.    *)
EXTENDS Monoboot, TLC

CONSTANTS funky, safe, safe2, fFunky, fSafe, fSafe2

MCTags == {funky, safe, safe2}
MCFiles == {fFunky, fSafe, fSafe2}
MCPrefixOf ==
  {<<n, n>> : n \in MCTags \cup MCFiles} \cup {<<safe, safe2>>}
MCPresent == {fSafe, fSafe2, fFunky}
MCKind == fFunky :> "monoimage" @@ fSafe :> "bzImage" @@ fSafe2 :> "bzImage"
MCTagDirs == {funky, safe, safe2}
Stanzas == <<[title |-> safe2, filename |-> fSafe2], [title |-> safe, filename |-> fSafe],
             [title |-> funky, filename |-> fFunky]>>
Conf(d, o, def, try, boot) ==
  [delay |-> d, bootonce |-> safe2, tryonce |-> o, default |-> def,
   fallback |-> safe, lasttry |-> try, lastboot |-> boot, images |-> Stanzas]
MCAuthored ==
  {Conf(1, "no", funky, funky, funky), Conf(0, "yes", safe, safe, Nil), Garbage}
===========================================================================
