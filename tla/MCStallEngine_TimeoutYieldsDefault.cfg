CONSTANTS
    t1 = t1
    t2 = t2
    Tasks <- MCOne
    MaxReq <- MCMaxReq
    MaxContinue <- MCMaxContinue
    MinWait <- MCTimeout
    MaxWait <- MCTimeout
    MaxExtended <- MCTimeout
    InitWait <- MCTimeout
    InitContinue <- MCTimeout
    ReqTimeouts <- MCReqTimeouts
    IocFlags <- MCIocFlags
SPECIFICATION Spec
INVARIANT TimeoutYieldsDefault
