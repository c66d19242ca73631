----------------------------- MODULE MCLifecycle -----------------------------
(* Lifecycle with the values TLC checks it under, beside Schedules and    *)
(* Settings, whose assumptions TLC evaluates at the start.                *)
EXTENDS Lifecycle, Settings
CONSTANTS cachePost, loadLoop, loadPost, mirrorWalk, cacheSync, directorySync, push, poll
TypeOfRun == [r \in {cachePost, loadLoop, loadPost} |->
                IF r = cachePost THEN cacheSync ELSE directorySync]
MixesChecked == {{loadLoop, loadPost}, {loadPost, mirrorWalk}, {cachePost}, {push, poll}}
=============================================================================
