CONSTANTS
    MinWait <- MCMinWait
    MaxWait <- MCMaxWait
    MaxExtended <- MCMaxExtended
    InitWait <- MCInitWait
    InitContinue <- MCInitContinue
    ReqTimeouts <- MCReqTimeouts
INIT ConfigInit
NEXT ConfigNext
INVARIANT ConfigTypeOK
