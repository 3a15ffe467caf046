CONSTANTS
    Types <- MCTypes
    CommandToClass <- MCCommandToClass
    DirectClasses <- MCDirectClasses
    Broadcast <- MCBroadcast
    Ignored <- MCIgnored
    Headers <- MCHeaders
    Bodies <- MCBodies
    Samples <- MCSamples
    MaxModules = 1
SPECIFICATION XSpec
INVARIANTS ReadAsSent BodyFits
