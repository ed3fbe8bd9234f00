SPECIFICATION Spec
CONSTANTS
    Connectors <- MCConnectors
    Crtcs <- MCCrtcs
    Encoders <- MCEncoders
    Wirings <- MCWirings
    NoCrtc = NoCrtc
    NoEncoder = NoEncoder
    Boot = Boot
    Off = Off
INVARIANTS
    OneDevicePerCrtc
    NothingLost
    DrawsOffScreen
    ScreenRestored
