SPECIFICATION CloseFairSpec
INVARIANTS OkMeansPeerComplete ClientOkMeansServerOk
PROPERTIES BothFinish NobodyHangs
CHECK_DEADLOCK FALSE
